---- MODULE Spec2Model ----
(***************************************************************************)
(* Model of the Retry middleware of the requester package (retry.go):      *)
(* the retry loop of Retry(), its helpers bufRespBody, drain and           *)
(* resetRequest, the default retry predicates, and                         *)
(* ExponentialBackoff.Backoff.                                              *)
(*                                                                         *)
(* One invocation of the Doer returned by Retry(config)(next) is modelled. *)
(* The underlying doer, the body regenerator (req.GetBody), the random     *)
(* source and the request context are the environment: their outcomes are  *)
(* chosen from small sets.  The doer obeys the http contract that a nil    *)
(* error comes with a non-nil response.                                    *)
(*                                                                         *)
(* Each action is one step of the invocation between two points where it   *)
(* calls out or blocks: the call of the doer and its return, the eager     *)
(* read, the predicate, the drain, the regeneration, the start of the      *)
(* wait, the select.                                                       *)
(*                                                                         *)
(* Durations are integers (ticks).  A float64 value is the rational it     *)
(* lies next to and the side it lies on, or one of +Inf, -Inf, NaN; a      *)
(* float64 expression is the set of the values it may have;                *)
(* time.Duration(f) truncates toward zero.  Errors are chains of strings,  *)
(* outermost first; <<>> is nil.                                           *)
(***************************************************************************)
EXTENDS Integers, Sequences, FiniteSets, TLC

VARIABLES
    config,       \* the *RetryConfig handed to Retry(); isNil models a nil pointer
    c,            \* the normalised copy held by the middleware closure
    pc,           \* position of the invocation
    callerReq,    \* the request the caller handed in
    req,          \* the loop's current request
    attempt,      \* the loop's attempt counter
    resp,         \* the loop's current response
    err,          \* the loop's current error
    stream,       \* the body stream the underlying doer returned on its latest call
    lastDo,       \* what the latest call of the underlying doer returned
    ctx,          \* state of req.Context()
    timerFired,   \* the channel of time.After is ready
    sends,        \* number of calls made to the underlying doer
    waits,        \* durations of the backoff waits started, in order
    predLog,      \* calls made to the retry predicate: attempt argument and answer
    getBodyLog,   \* outcomes of the calls made to req.GetBody
    result,       \* what the invocation returned
    bo,           \* ExponentialBackoff under test
    boCall,       \* latest call of Backoff on bo: argument, random draw, result
    prCall,       \* latest call of a retry predicate on its own: arguments, answer
    predCall,     \* the latest call the loop made to the retry predicate, if any
    reqObjs,      \* the request objects of the invocation: the caller's, then each copy
    parked        \* the frames of the invocations that are not running at the moment

vars == <<config, c, pc, callerReq, req, attempt, resp, err, stream, lastDo, ctx,
          timerFired, sends, waits, predLog, getBodyLog, result, bo, boCall, prCall,
          predCall, reqObjs, parked>>

loopVars == <<config, c, pc, callerReq, req, attempt, resp, err, stream, lastDo, ctx,
              timerFired, sends, waits, predLog, getBodyLog, result, predCall, reqObjs,
              parked>>

----------------------------------------------------------------------------
(* Bounds *)

\* largest MaxAttempts of the configurations enumerated in full
MaxK == 3

\* largest attempt number handed to Backoff when it is examined on its own
MaxN == 4

----------------------------------------------------------------------------
(* float64 arithmetic *)

\* A binary64 value is <<num, den, side, high>>. It stands for
\* high * 2^53 + num/den, num/den being a rational in lowest terms that lies
\* within the integers of TLC, and side says where the value lies next to that
\* number: -1 just below, 0 on it, 1 just above. den = 0 gives the non-finite
\* values +Inf, -Inf and NaN. The distance of a value to its rational is a
\* rounding error: it decides a comparison with the rational itself, the sign
\* of a difference that cancels and the integer a conversion truncates to, and
\* nothing else. A value with high # 0 is a whole number (den = 1, side = 0):
\* beyond 2^53 a float64 holds only the multiples of a unit that doubles with
\* each binary digit.
\*
\* A float64 expression of the program is the SET of the binary64 values it
\* may have: a constant or a field is a single value, the side of which is
\* computed; the result of an operation on rounded operands may lie on either
\* side of the rational. The operators R... work on such sets.

RECURSIVE GCD(_, _)
GCD(a, b) == IF b = 0 THEN a ELSE GCD(b, a % b)

Abs(x) == IF x < 0 THEN -x ELSE x

Sign(x) == IF x < 0 THEN -1 ELSE IF x > 0 THEN 1 ELSE 0

Norm(q) ==
    LET g == GCD(Abs(q[1]), q[2])
    IN  IF q[2] = 0 THEN <<Sign(q[1]), 0>>
        ELSE IF q[1] = 0 THEN <<0, 1>>
        ELSE <<q[1] \div g, q[2] \div g>>

\* a float64 below 2^53 holds num/den exactly when den is a power of two
RECURSIVE IsPow2(_)
IsPow2(d) == d = 1 \/ (d > 1 /\ d % 2 = 0 /\ IsPow2(d \div 2))

\* number of binary digits of the natural number q
RECURSIVE BitLen(_)
BitLen(q) == IF q = 0 THEN 0 ELSE 1 + BitLen(q \div 2)

\* 2^k modulo d, by repeated squaring
RECURSIVE PowMod2(_, _)
PowMod2(k, d) ==
    IF k = 0 THEN 1 % d
    ELSE LET h  == PowMod2(k \div 2, d)
             sq == (h * h) % d
         IN  IF k % 2 = 1 THEN (2 * sq) % d ELSE sq

\* the number of binary places to the leading digit of num/den < 1
RECURSIVE LeadingPlace(_, _, _)
LeadingPlace(num, den, j) ==
    IF 2 * num >= den THEN j ELSE LeadingPlace(2 * num, den, j + 1)

\* the side of num/den on which its nearest binary64 value lies (53 significant
\* digits, round to nearest), for num > 0 and den not a power of two: the
\* remainder of the long division after the 53rd digit decides
NearestSide(num, den) ==
    LET whole  == num \div den
        places == IF whole > 0 THEN 53 - BitLen(whole)
                               ELSE 52 + LeadingPlace(num, den, 1)
        rem    == ((num % den) * PowMod2(places, den)) % den
    IN  IF 2 * rem > den THEN 1 ELSE -1

RECURSIVE Pow2(_)
Pow2(n) == IF n <= 0 THEN 1 ELSE 2 * Pow2(n - 1)

\* A Duration is an int64. The Duration <<high, low>> is high * 2^53 + low
\* nanoseconds (or the unit a configuration counts in), low within the
\* integers of TLC: every Duration TLC can count is <<0, low>>, and the
\* Durations next to 2^53 and to the ends of the int64 range have a high part.
Ns(n) == <<0, n>>

\* math.MaxInt64 = 2^63 - 1 and math.MinInt64 = -2^63
MaxDuration == <<1024, -1>>

MinDuration == <<-1024, 0>>

\* d < e and d <= e for two Durations
DLess(d, e) == d[1] < e[1] \/ (d[1] = e[1] /\ d[2] < e[2])

DLeq(d, e) == d = e \/ DLess(d, e)

\* the unit in the last place of the float64 values from high * 2^53 on,
\* high > 0, or of those below it: 2 from 2^53 to 2^54, 4 to 2^55, and so on
Ulp(high, below) ==
    IF below /\ IsPow2(high) THEN Pow2(BitLen(high) - 1) ELSE Pow2(BitLen(high))

\* the float64 value an operation gives whose exact result is next to
\* high * 2^53 + num/den, high # 0, on the given side of it: the nearest
\* multiple of the unit, and of two multiples equally near the one on the side
\* of the result, or the even one when the result is halfway
Wide(high, num, den, side) ==
    LET s     == Sign(high)
        m     == s * num
        u     == Ulp(Abs(high), m < 0 \/ (m = 0 /\ s * side < 0))
        k     == m \div (den * u)
        rem   == m % (den * u)
        below == k * u
        above == IF rem = 0 THEN below ELSE (k + 1) * u
        up    == \/ 2 * rem > den * u
                 \/ 2 * rem = den * u /\ s * side > 0
                 \/ 2 * rem = den * u /\ side = 0 /\ k % 2 = 1
    IN  <<s * (IF up THEN above ELSE below), 1, 0, high>>

\* the side of the sum of two rounding errors: unknown when they are opposite
SumSides(a, b) == IF a + b # 0 \/ a = 0 THEN {Sign(a + b)} ELSE {-1, 0, 1}

\* the float64 value nearest to num/den
Nearest(num, den) ==
    LET q == Norm(<<num, den>>)
    IN  IF q[2] = 0 \/ IsPow2(q[2]) THEN <<q[1], q[2], 0, 0>>
        ELSE <<q[1], q[2], Sign(q[1]) * NearestSide(Abs(q[1]), q[2]), 0>>

\* the float64 of the decimal num/den, as a constant of the program text or a
\* field value
Float(num, den) == {Nearest(num, den)}

\* the float64 of a whole-number constant
Rat(i) == Float(i, 1)

\* float64(d) of the Duration d: exact up to 2^53, the nearest float64 beyond
Float64(d) == IF d[1] = 0 THEN Rat(d[2]) ELSE {Wide(d[1], d[2], 1, 0)}

Inf == {<<1, 0, 0, 0>>}

NaN == {<<0, 0, 0, 0>>}

IsNaN(p) == p[2] = 0 /\ p[1] = 0

IsInf(p) == p[2] = 0 /\ p[1] # 0

\* a value that is exactly zero
IsZero(p) == p[2] # 0 /\ p[1] = 0 /\ p[3] = 0 /\ p[4] = 0

\* the sign of a value: that of its high part, else of its rational, else of
\* its rounding error
SignOf(p) == IF p[4] # 0 THEN Sign(p[4]) ELSE IF p[1] # 0 THEN Sign(p[1]) ELSE p[3]

\* an exact power of two below 2^53, positive or negative: multiplying by it
\* is exact
IsPowerOfTwo(p) ==
    /\ p[2] # 0
    /\ p[3] = 0
    /\ p[4] = 0
    /\ \/ Abs(p[1]) = 1 /\ IsPow2(p[2])
       \/ p[2] = 1 /\ p[1] # 0 /\ IsPow2(Abs(p[1]))

\* a whole number below 2^53, not zero
IsWhole(p) == p[2] = 1 /\ p[3] = 0 /\ p[4] = 0 /\ p[1] # 0

\* the values an operation may give whose result stands for num/den: the
\* nearest value when the operands were exact, else a value on either side
Rounded(num, den, exact) ==
    LET q == Norm(<<num, den>>)
    IN  IF exact \/ q[2] = 0 THEN {Nearest(num, den)}
        ELSE { <<q[1], q[2], s, 0>> : s \in IF IsPow2(q[2]) THEN {-1, 0, 1} ELSE {-1, 1} }

\* p * q when one of the two is beyond 2^53: the other is a whole number, for
\* no other product has a value in this representation
MulWide(p, q) ==
    CASE p[4] # 0 /\ IsWhole(q) -> {Wide(p[4] * q[1], p[1] * q[1], 1, 0)}
      [] q[4] # 0 /\ IsWhole(p) -> {Wide(q[4] * p[1], q[1] * p[1], 1, 0)}

\* p * q for two values: 0 * Inf is NaN, while Inf times a rounding error is
\* an infinity of the sign of the error
Mul(p, q) ==
    IF IsNaN(p) \/ IsNaN(q) THEN NaN
    ELSE IF IsInf(p) \/ IsInf(q)
        THEN IF SignOf(p) * SignOf(q) = 0 THEN NaN
             ELSE {<<SignOf(p) * SignOf(q), 0, 0, 0>>}
    ELSE IF IsZero(p) \/ IsZero(q) THEN {<<0, 1, 0, 0>>}
    ELSE IF p[4] # 0 \/ q[4] # 0 THEN MulWide(p, q)
    ELSE IF p[1] = 0 \/ q[1] = 0 THEN {<<0, 1, SignOf(p) * SignOf(q), 0>>}
    ELSE IF IsPowerOfTwo(p)
        THEN LET r == Norm(<<p[1] * q[1], p[2] * q[2]>>)
             IN  {<<r[1], r[2], Sign(p[1]) * q[3], 0>>}
    ELSE IF IsPowerOfTwo(q)
        THEN LET r == Norm(<<p[1] * q[1], p[2] * q[2]>>)
             IN  {<<r[1], r[2], Sign(q[1]) * p[3], 0>>}
    ELSE Rounded(p[1] * q[1], p[2] * q[2], p[3] = 0 /\ q[3] = 0)

Neg(p) == <<-p[1], p[2], -p[3], -p[4]>>

\* p + q for two values: Inf + (-Inf) is NaN; when the rationals cancel the
\* result is the sum of the rounding errors; when the high parts cancel the
\* result is the sum of the rationals
Add(p, q) ==
    IF IsNaN(p) \/ IsNaN(q) THEN NaN
    ELSE IF IsInf(p) /\ IsInf(q) THEN (IF p[1] = q[1] THEN {p} ELSE NaN)
    ELSE IF IsInf(p) THEN {p}
    ELSE IF IsInf(q) THEN {q}
    ELSE IF IsZero(p) THEN {q}
    ELSE IF IsZero(q) THEN {p}
    ELSE IF p[4] + q[4] # 0
        THEN { Wide(p[4] + q[4], p[1] * q[2] + q[1] * p[2], p[2] * q[2], s) :
                   s \in SumSides(p[3], q[3]) }
    ELSE IF p[1] * q[2] + q[1] * p[2] = 0
        THEN { <<0, 1, s, 0>> : s \in SumSides(p[3], q[3]) }
    ELSE Rounded(p[1] * q[2] + q[1] * p[2], p[2] * q[2], p[3] = 0 /\ q[3] = 0)

\* p < q for two values; false when either is NaN. Values next to the same
\* rational are ordered by their sides (the program compares a computed value
\* with a whole number only, which lies on its rational).
Less(p, q) ==
    /\ ~IsNaN(p)
    /\ ~IsNaN(q)
    /\ IF p[2] = 0 /\ q[2] = 0 THEN p[1] < q[1]
       ELSE IF p[2] = 0 THEN p[1] < 0
       ELSE IF q[2] = 0 THEN q[1] > 0
       ELSE IF p[4] # q[4] THEN p[4] < q[4]
       ELSE \/ p[1] * q[2] < q[1] * p[2]
            \/ p[1] * q[2] = q[1] * p[2] /\ p[3] < q[3]

\* math.Min and math.Max of two values: NaN when either operand is NaN
FMin(p, q) ==
    IF IsNaN(p) \/ IsNaN(q) THEN <<0, 0, 0, 0>> ELSE IF Less(q, p) THEN q ELSE p

FMax(p, q) ==
    IF IsNaN(p) \/ IsNaN(q) THEN <<0, 0, 0, 0>> ELSE IF Less(p, q) THEN q ELSE p

\* 1 / p for the value p of a power below 2^53: 1/0 is +Inf, 1/Inf is 0
Recip(p) ==
    CASE IsNaN(p) -> NaN
      [] IsInf(p) -> {<<0, 1, 0, 0>>}
      [] p[2] # 0 /\ p[4] = 0 /\ p[1] = 0 -> Inf
      [] p[2] # 0 /\ p[4] = 0 /\ p[1] # 0 ->
             Rounded(Sign(p[1]) * p[2], Abs(p[1]), p[3] = 0)

\* the operations on float64 expressions
RMul(P, Q) == UNION { Mul(p, q) : p \in P, q \in Q }

RNeg(P) == { Neg(p) : p \in P }

RAdd(P, Q) == UNION { Add(p, q) : p \in P, q \in Q }

RSub(P, Q) == RAdd(P, RNeg(Q))

\* P < Q can come out true
RLess(P, Q) == \E p \in P, q \in Q : Less(p, q)

RMin(P, Q) == { FMin(p, q) : p \in P, q \in Q }

RMax(P, Q) == { FMax(p, q) : p \in P, q \in Q }

\* math.Pow(Q, n) for an integer n: 1 for n = 0, Q itself for n = 1, the
\* reciprocal of Q^(-n) for a negative n. Backoff calls it with Q > 0 only.
RECURSIVE RPow(_, _)
RPow(Q, n) ==
    IF n = 0 THEN Rat(1)
    ELSE IF n = 1 THEN Q
    ELSE IF n > 1 THEN RMul(Q, RPow(Q, n - 1))
    ELSE UNION { Recip(p) : p \in RPow(Q, -n) }

\* the integer part of a finite value, toward zero, as a Duration: a value
\* just below a positive whole number, or just above a negative one, loses a
\* unit
Trunc(q) ==
    IF q[4] # 0 THEN <<q[4], q[1]>>
    ELSE IF q[2] = 1 /\ q[1] # 0 /\ q[3] = -Sign(q[1]) THEN Ns(q[1] - Sign(q[1]))
    ELSE IF q[1] >= 0 THEN Ns(q[1] \div q[2])
    ELSE Ns(-((-q[1]) \div q[2]))

\* What the conversion instruction of the build gives for a value no int64 can
\* hold (NaN, an infinity, a finite value of 2^63 or more, or below -2^63) is
\* left to the implementation by the Go specification: amd64 gives
\* math.MinInt64 for all of them, arm64 and riscv64 saturate, arm64 gives 0 for
\* NaN and riscv64 math.MaxInt64.
Archs == {"amd64", "arm64", "riscv64"}

\* q is a value that an int64 can hold once truncated: -2^63 <= q < 2^63
Fits(q) ==
    /\ q[2] # 0
    /\ \/ Abs(q[4]) < 1024
       \/ q[4] = 1024 /\ q[1] < 0
       \/ q[4] = -1024 /\ q[1] >= 0

\* time.Duration(f) for the value q on the build arch
Duration(q, arch) ==
    IF Fits(q) THEN Trunc(q)
    ELSE IF arch = "amd64" THEN MinDuration
    ELSE IF IsNaN(q) THEN (IF arch = "arm64" THEN Ns(0) ELSE MaxDuration)
    ELSE IF SignOf(q) > 0 THEN MaxDuration ELSE MinDuration

\* every Duration the conversion of the expression Q may give
Durations(Q) == { Duration(q, arch) : q \in Q, arch \in Archs }

----------------------------------------------------------------------------
(* ExponentialBackoff.Backoff *)

\* An ExponentialBackoff value
Exponential(base, mult, jitter, max) ==
    [BaseDelay |-> base, Multiplier |-> mult, Jitter |-> jitter, MaxDelay |-> max]

\* DefaultBackoff, in milliseconds
DefaultBackoff == Exponential(Ns(1000), Float(16, 10), Float(2, 10), Ns(120000))

\* NoBackoff(): the zero value
NoBackoff == Exponential(Ns(0), Rat(0), Rat(0), Ns(0))

ConstantBackoff(delay) == Exponential(delay, Rat(0), Rat(0), Ns(0))

ConstantBackoffWithJitter(delay) == Exponential(delay, Rat(0), Float(2, 10), Ns(0))

\* fault seeded to test the constant mode: the multiplier is applied even when
\* it is not positive
BackoffClamped_alwaysGrow(b, n) ==
    LET base    == Float64(b.BaseDelay)
        grown   == RMul(base, RPow(b.Multiplier, n - 1))
        clamped == IF DLess(Ns(0), b.MaxDelay)
                       THEN RMin(grown, Float64(b.MaxDelay))
                       ELSE grown
    IN  RMax(Rat(0), clamped)

\* backoff after the multiplier, the MaxDelay clamp and the clamp at zero
BackoffClamped(b, n) ==
    LET base    == Float64(b.BaseDelay)
        grown   == IF RLess(Rat(0), b.Multiplier)
                       THEN RMul(base, RPow(b.Multiplier, n - 1))
                       ELSE base
        clamped == IF DLess(Ns(0), b.MaxDelay)
                       THEN RMin(grown, Float64(b.MaxDelay))
                       ELSE grown
    IN  RMax(Rat(0), clamped)

\* backoff *= 1 + c.Jitter*(rand.Float64()*2-1), r being the value of rand.Float64()
BackoffJittered(b, n, r) ==
    RMul(BackoffClamped(b, n),
         RAdd(Rat(1), RMul(b.Jitter, RSub(RMul(r, Rat(2)), Rat(1)))))

\* a jittered backoff above MaxDelay is redistributed below MaxDelay: the test
\* delta > 0 is made on each value the jittered backoff may have
Redistribute(b, jittered) ==
    LET maxDelayf == Float64(b.MaxDelay)
    IN  UNION { UNION { IF DLess(Ns(0), b.MaxDelay) /\ RLess(Rat(0), {delta})
                            THEN RSub(maxDelayf, {delta})
                            ELSE {j}
                        : delta \in RSub({j}, maxDelayf) }
                : j \in jittered }

\* the float64 that Backoff converts to a Duration, rand.Float64() returning r
\* if it is called
BackoffFloat(b, n, r) ==
    IF RLess(Rat(0), b.Jitter)
        THEN Redistribute(b, BackoffJittered(b, n, r))
        ELSE BackoffClamped(b, n)

\* b.Backoff(n): the Durations it may return
Backoff(b, n, r) == Durations(BackoffFloat(b, n, r))

\* rand.Float64() is consulted only when Jitter > 0
RandUsed(b) == RLess(Rat(0), b.Jitter)

----------------------------------------------------------------------------
(* Errors *)

NoErr == <<>>

\* errors.Is(e, target): some error of the chain is target
ErrorsIs(e, target) == \E i \in 1..Len(e) : e[i] = target

\* merry.Prepend(e, msg) wraps e
Prepend(e, msg) == <<msg>> \o e

\* the chain members that implement net.Error, and those whose Timeout() is true
NetErrors == {"net.OpError", "url.Error", "netError{timeout}", "netError{}",
              "netError{temporary}", "ECONNRESET", "ECONNABORTED", "EPIPE", "ETIMEDOUT",
              "context.DeadlineExceeded"}

TimeoutErrors == {"netError{timeout}", "ETIMEDOUT", "context.DeadlineExceeded"}

\* e[i].Timeout(): net.OpError and url.Error ask the error they wrap, if it has
\* a Timeout method, and that error may be a wrapper in its turn
RECURSIVE IsTimeout(_, _)
IsTimeout(e, i) ==
    IF e[i] \in {"net.OpError", "url.Error"}
        THEN i < Len(e) /\ e[i + 1] \in NetErrors /\ IsTimeout(e, i + 1)
        ELSE e[i] \in TimeoutErrors

\* errors.As(e, &netError) && netError.Timeout(): the first net.Error of the chain
AsNetTimeout(e) ==
    /\ \E i \in 1..Len(e) : e[i] \in NetErrors
    /\ IsTimeout(e, CHOOSE i \in 1..Len(e) :
                        e[i] \in NetErrors /\ \A j \in 1..(i - 1) : e[j] \notin NetErrors)

ConnReset == <<"net.OpError", "ECONNRESET">>

ProtoErr  == <<"malformed HTTP response">>

----------------------------------------------------------------------------
(* Bodies, responses, requests *)

\* io.Copy(ioutil.Discard, io.LimitReader(r, 4096))
DrainLimit == 4096

\* A body stream as the underlying doer hands it out: len bytes, of which a read
\* fails with readErr once failAt bytes were delivered (readErr = NoErr: never);
\* Close() returns closeErr.  read and closed count the bytes read and the calls
\* of Close().
Stream(len, failAt, readErr, closeErr) ==
    [present |-> TRUE, len |-> len, failAt |-> failAt, readErr |-> readErr,
     closeErr |-> closeErr, read |-> 0, closed |-> 0]

NoStream ==
    [present |-> FALSE, len |-> 0, failAt |-> 0, readErr |-> NoErr,
     closeErr |-> NoErr, read |-> 0, closed |-> 0]

\* The value of a Body field.  kind "orig" is the stream of the doer's latest
\* response (its state is the variable stream); "NopCloser" and "errCloser" are
\* the in-memory replays made by bufRespBody and carry their own state.
BodyRef(kind) == [kind |-> kind, len |-> 0, read |-> 0, closed |-> 0, closeErr |-> NoErr]

NilBody == BodyRef("nil")

NoBody  == BodyRef("NoBody")

NilResp == [isNil |-> TRUE, id |-> 0, StatusCode |-> 0, Body |-> NilBody]

Response(id, status, body) ==
    [isNil |-> FALSE, id |-> id, StatusCode |-> status, Body |-> body]

NilReq == [id |-> 0, Method |-> "", Body |-> "nil", bodyId |-> 0, GetBody |-> FALSE]

\* requests a caller hands in: Body is "nil", "NoBody" or "stream"; GetBody is
\* TRUE when the GetBody field is not nil
Request(m, b, g) == [id |-> 0, Method |-> m, Body |-> b, bodyId |-> 0, GetBody |-> g]

Requests ==
    { Request("GET", "nil", FALSE), Request("GET", "NoBody", TRUE),
      Request("GET", "stream", TRUE), Request("POST", "NoBody", FALSE),
      Request("POST", "stream", FALSE), Request("POST", "stream", TRUE),
      Request("DELETE", "nil", FALSE) }

\* what one call of the underlying doer may return: response (or nil), the
\* stream behind its body, error
DoerOutcomes ==
    { [status |-> 200, body |-> "orig", stream |-> Stream(5, 0, NoErr, NoErr), err |-> NoErr],
      [status |-> 500, body |-> "orig", stream |-> Stream(5000, 0, NoErr, NoErr), err |-> NoErr],
      [status |-> 200, body |-> "orig", stream |-> Stream(5, 2, ConnReset, NoErr), err |-> NoErr],
      [status |-> 500, body |-> "orig", stream |-> Stream(5, 0, NoErr, <<"close failed">>), err |-> NoErr],
      [status |-> 500, body |-> "nil", stream |-> NoStream, err |-> NoErr],
      [status |-> 501, body |-> "NoBody", stream |-> NoStream, err |-> NoErr],
      [status |-> 0, body |-> "nil", stream |-> NoStream, err |-> ConnReset],
      [status |-> 0, body |-> "nil", stream |-> NoStream, err |-> ProtoErr],
      [status |-> 302, body |-> "orig", stream |-> Stream(5, 0, NoErr, NoErr), err |-> ProtoErr] }

\* the response of a doer outcome, as the id-th response of the invocation
OutcomeResp(o, id) ==
    IF o.status = 0 THEN NilResp ELSE Response(id, o.status, BodyRef(o.body))

\* what one call of req.GetBody may return: a fresh stream, a nil body, the NoBody
\* sentinel, or an error
GetBodyOutcomes == {"stream", "nil", "NoBody", "error"}

GetBodyErr == <<"GetBody failed">>

----------------------------------------------------------------------------
(* Retry predicates *)

\* faults seeded to test the default predicate: every status from 500 on is
\* retried; connection-aborted is not looked for
DefaultShouldRetry_from500(a, r, rsp, e) ==
    IF e = NoErr
        THEN rsp.StatusCode >= 500 \/ rsp.StatusCode = 429
        ELSE \/ ErrorsIs(e, "EOF")
             \/ ErrorsIs(e, "ECONNRESET")
             \/ ErrorsIs(e, "ECONNABORTED")
             \/ ErrorsIs(e, "EPIPE")
             \/ AsNetTimeout(e)

DefaultShouldRetry_noAborted(a, r, rsp, e) ==
    IF e = NoErr
        THEN rsp.StatusCode = 500 \/ rsp.StatusCode > 501 \/ rsp.StatusCode = 429
        ELSE \/ ErrorsIs(e, "EOF")
             \/ ErrorsIs(e, "ECONNRESET")
             \/ ErrorsIs(e, "EPIPE")
             \/ AsNetTimeout(e)

DefaultShouldRetry(a, r, rsp, e) ==
    IF e = NoErr
        THEN rsp.StatusCode = 500 \/ rsp.StatusCode > 501 \/ rsp.StatusCode = 429
        ELSE \/ ErrorsIs(e, "EOF")
             \/ ErrorsIs(e, "ECONNRESET")
             \/ ErrorsIs(e, "ECONNABORTED")
             \/ ErrorsIs(e, "EPIPE")
             \/ AsNetTimeout(e)

\* fault seeded to test the idempotent predicate: PUT and DELETE are let through
OnlyIdempotentShouldRetry_rfc(a, r, rsp, e) ==
    r.Method \in {"GET", "HEAD", "OPTIONS", "TRACE", "PUT", "DELETE"}

OnlyIdempotentShouldRetry(a, r, rsp, e) ==
    r.Method \in {"GET", "HEAD", "OPTIONS", "TRACE"}

\* fault seeded to test the composition: one retryer answering true is enough
AllRetryers_any(answers) == \E i \in 1..Len(answers) : answers[i]

\* AllRetryers(s...): true only if every retryer of s answers true
AllRetryers(answers) == \A i \in 1..Len(answers) : answers[i]

\* The answers c.ShouldRetry.ShouldRetry(a, r, rsp, e) may give.  "custom" is a
\* ShouldRetryerFunc supplied by the application: it may answer either way.
ShouldRetry(p, a, r, rsp, e) ==
    CASE p = "DefaultShouldRetry" -> {DefaultShouldRetry(a, r, rsp, e)}
      [] p = "AllRetryers" ->
            {AllRetryers(<<DefaultShouldRetry(a, r, rsp, e),
                           OnlyIdempotentShouldRetry(a, r, rsp, e)>>)}
      [] OTHER -> BOOLEAN

----------------------------------------------------------------------------
(* RetryConfig *)

\* A pointer is <<>> (nil) or <<v>>
RetryConfig(max, should, backoff, read) ==
    [isNil |-> FALSE, MaxAttempts |-> max, ShouldRetry |-> should,
     Backoff |-> backoff, ReadResponse |-> read]

\* DefaultRetryConfig = RetryConfig{}
DefaultRetryConfig == RetryConfig(0, "nil", <<>>, FALSE)

NilConfig == [DefaultRetryConfig EXCEPT !.isNil = TRUE]

\* fault seeded to test the defaults: MaxAttempts below 1 becomes 1
normalize_once(cfg) ==
    [cfg EXCEPT
        !.Backoff     = IF cfg.Backoff = <<>> THEN <<DefaultBackoff>> ELSE @,
        !.ShouldRetry = IF cfg.ShouldRetry = "nil" THEN "DefaultShouldRetry" ELSE @,
        !.MaxAttempts = IF cfg.MaxAttempts < 1 THEN 1 ELSE @]

normalize(cfg) ==
    [cfg EXCEPT
        !.Backoff     = IF cfg.Backoff = <<>> THEN <<DefaultBackoff>> ELSE @,
        !.ShouldRetry = IF cfg.ShouldRetry = "nil" THEN "DefaultShouldRetry" ELSE @,
        !.MaxAttempts = IF cfg.MaxAttempts < 1 THEN 3 ELSE @]

\* the copy Retry() makes of its argument
ConfigCopy(cfg) == IF cfg.isNil THEN DefaultRetryConfig ELSE cfg

\* the backoff of TestRetry, in milliseconds
TestBackoff == Exponential(Ns(50), Rat(2), Rat(0), Ns(1000))

\* the configuration of TestRetry
TestRetryConfig == RetryConfig(4, "nil", <<TestBackoff>>, FALSE)

\* the configuration of TestRetry_readResponse once the flag is set; its backoff
\* is in nanoseconds
ReadResponseConfig == RetryConfig(4, "nil", <<Exponential(Ns(1), Rat(1), Rat(0), Ns(1000000000))>>, TRUE)

\* a configuration that does not wait between the attempts
NoBackoffConfig == RetryConfig(2, "nil", <<NoBackoff>>, FALSE)

Configs ==
    {NilConfig, TestRetryConfig, ReadResponseConfig, NoBackoffConfig}
    \cup { RetryConfig(k, p, <<TestBackoff>>, rd) :
             k \in 1..MaxK, p \in {"nil", "AllRetryers", "custom"}, rd \in BOOLEAN }
    \cup { RetryConfig(k, "nil", <<>>, FALSE) : k \in -1..MaxK }

\* values of rand.Float64() drawn during an invocation
LoopDraws == {Float(0, 1), Float(3, 4)}

----------------------------------------------------------------------------
(* Helpers of the retry loop *)

\* bytes a reader can still deliver from st before the end or the failure
Available(st) == (IF st.readErr = NoErr THEN st.len ELSE st.failAt) - st.read

\* bufRespBody(b): the new body, the error, and the stream afterwards.
\* bytes.Buffer.ReadFrom takes io.EOF as the end of the data.
bufRespBody(b, st) ==
    IF b.kind \in {"nil", "NoBody"}
        THEN [body |-> b, err |-> NoErr, stream |-> st]
    ELSE IF st.readErr # NoErr /\ st.readErr # <<"EOF">>
        THEN [body |-> NilBody, err |-> st.readErr,
              stream |-> [st EXCEPT !.read = st.failAt]]
    ELSE LET n == st.read + Available(st)
             closedSt == [st EXCEPT !.read = n, !.closed = @ + 1]
         IN  IF st.closeErr # NoErr
                 THEN [body |-> [BodyRef("errCloser") EXCEPT !.len = n, !.closeErr = st.closeErr],
                       err |-> NoErr, stream |-> closedSt]
                 ELSE [body |-> [BodyRef("NopCloser") EXCEPT !.len = n],
                       err |-> NoErr, stream |-> closedSt]

Min(x, y) == IF x < y THEN x ELSE y

\* fault seeded to test the bound of the drain: the body is read to its end
drain_unbounded(b, st) ==
    CASE b.kind = "nil" -> [body |-> b, stream |-> st]
      [] b.kind = "NoBody" -> [body |-> b, stream |-> st]
      [] b.kind = "orig" ->
            [body |-> b,
             stream |-> [st EXCEPT !.read = @ + Available(st), !.closed = @ + 1]]
      [] OTHER ->
            [body |-> [b EXCEPT !.read = b.len, !.closed = @ + 1], stream |-> st]

\* drain(r): the body and the stream afterwards
drain(b, st) ==
    CASE b.kind = "nil" -> [body |-> b, stream |-> st]
      [] b.kind = "NoBody" -> [body |-> b, stream |-> st]
      [] b.kind = "orig" ->
            [body |-> b,
             stream |-> [st EXCEPT !.read = @ + Min(DrainLimit, Available(st)),
                                   !.closed = @ + 1]]
      [] OTHER ->
            [body |-> [b EXCEPT !.read = @ + Min(DrainLimit, b.len - b.read),
                                !.closed = @ + 1],
             stream |-> st]

\* fault seeded to test the guard of the regeneration: http.NoBody is not looked for
HasBody_nilOnly(r) == r.Body # "nil"

\* the request has a body to regenerate
HasBody(r) == r.Body # "nil" /\ r.Body # "NoBody"

\* fault seeded to test the regeneration-failure property: the error of GetBody
\* is dropped and the request goes on without a body
resetRequest_dropErr(r, g, n) ==
    LET copyReq == [r EXCEPT !.id = @ + 1]
    IN  IF r.Body # "nil" /\ r.Body # "NoBody"
            THEN [req |-> [copyReq EXCEPT !.Body = IF g = "error" THEN "nil" ELSE g,
                                          !.bodyId = n],
                  err |-> NoErr]
            ELSE [req |-> copyReq, err |-> NoErr]

\* fault seeded to test the regeneration: the copy keeps the body of the
\* request it was copied from
resetRequest_stale(r, g, n) ==
    LET copyReq == [r EXCEPT !.id = @ + 1]
    IN  IF r.Body # "nil" /\ r.Body # "NoBody" /\ g = "error"
            THEN [req |-> NilReq, err |-> Prepend(GetBodyErr, "calling req.GetBody")]
            ELSE [req |-> copyReq, err |-> NoErr]

\* fault seeded to test the copy: the request is modified in place
resetRequest_inPlace(r, g, n) ==
    IF r.Body # "nil" /\ r.Body # "NoBody"
        THEN IF g = "error"
                 THEN [req |-> NilReq, err |-> Prepend(GetBodyErr, "calling req.GetBody")]
                 ELSE [req |-> [r EXCEPT !.Body = g, !.bodyId = n], err |-> NoErr]
        ELSE [req |-> r, err |-> NoErr]

\* resetRequest(req): g is what req.GetBody() returns if it is called, n the
\* number of that call
resetRequest(r, g, n) ==
    LET copyReq == [r EXCEPT !.id = @ + 1]
    IN  IF HasBody(copyReq)
            THEN IF g = "error"
                     THEN [req |-> NilReq, err |-> Prepend(GetBodyErr, "calling req.GetBody")]
                     ELSE [req |-> [copyReq EXCEPT !.Body = g, !.bodyId = n], err |-> NoErr]
            ELSE [req |-> copyReq, err |-> NoErr]

\* fault seeded to test the bypass property: the test of GetBody is inverted
Bypass_inverted(r) == r.Body # "nil" /\ r.Body # "NoBody" /\ r.GetBody

\* if GetBody is not set, we can't retry anyway
Bypass(r) == r.Body # "nil" /\ r.Body # "NoBody" /\ ~r.GetBody

\* fault seeded to test the eager read: the flag is not looked at
ReadsBody_never(cfg, e) == FALSE

\* err == nil && c.ReadResponse
ReadsBody(cfg, e) == e = NoErr /\ cfg.ReadResponse

\* faults seeded to test the attempt bounds: the comparison is off by one, either way
Exhausted_gt(a, cfg) == a > cfg.MaxAttempts

Exhausted_early(a, cfg) == a + 1 >= cfg.MaxAttempts

\* attempt >= c.MaxAttempts
Exhausted(a, cfg) == a >= cfg.MaxAttempts

\* fault seeded to test the veto property: the predicate's answer is not used
Break_noVeto(a, cfg, ans) == a >= cfg.MaxAttempts

\* the break condition of the loop, ans being the predicate's answer
Break(a, cfg, ans) == Exhausted(a, cfg) \/ ~ans

\* req.Context().Err()
ContextErr(cx) == <<cx>>

\* fault seeded to test the cancellation property: the pending response is returned
CancelResult_keepResp(rsp, cx) == [resp |-> rsp, err |-> <<cx>>]

\* return nil, req.Context().Err()
CancelResult(rsp, cx) == [resp |-> NilResp, err |-> ContextErr(cx)]

\* fault seeded to test the propagation property: the error is replaced by nil
Return_swallow(rsp, e) == [resp |-> rsp, err |-> NoErr]

\* return resp, err
Return(rsp, e) == [resp |-> rsp, err |-> e]

NoResult == [resp |-> NilResp, err |-> NoErr]

\* fault seeded to test the wait durations: Backoff is given the number of the
\* attempt to come
BackoffWait_next(cfg, a, r) == Backoff(cfg.Backoff[1], a + 1, r)

\* c.Backoff.Backoff(attempt), attempt being the attempt just completed
BackoffWait(cfg, a, r) == Backoff(cfg.Backoff[1], a, r)

----------------------------------------------------------------------------
(* One invocation of the Doer returned by Retry(config)(next) *)

boIdle == [n |-> 0, r |-> Float(0, 1), out |-> Ns(0)]

prIdle == [fn |-> "", list |-> <<>>, attempt |-> 0, req |-> NilReq, resp |-> NilResp,
           err |-> NoErr, out |-> FALSE]

\* ctx is the state of req.Context() at the time of the call
predIdle == [asked |-> FALSE, attempt |-> 0, req |-> NilReq, resp |-> NilResp, err |-> NoErr,
             ctx |-> "active"]

\* the request objects after resetRequest returned obj: a copy is a new object,
\* an object written in place keeps its place
Store(objs, obj) ==
    IF obj.id < Len(objs) THEN [objs EXCEPT ![obj.id + 1] = obj] ELSE Append(objs, obj)

Init ==
    /\ config \in Configs
    /\ c = normalize(ConfigCopy(config))
    /\ pc = "idle"
    /\ callerReq = NilReq
    /\ req = NilReq
    /\ attempt = 0
    /\ resp = NilResp
    /\ err = NoErr
    /\ stream = NoStream
    /\ lastDo = NoResult
    /\ ctx = "active"
    /\ timerFired = FALSE
    /\ sends = 0
    /\ waits = <<>>
    /\ predLog = <<>>
    /\ getBodyLog = <<>>
    /\ result = NoResult
    /\ bo = NoBackoff
    /\ boCall = boIdle
    /\ prCall = prIdle
    /\ predCall = predIdle
    /\ reqObjs = <<>>
    /\ parked = <<>>

\* The caller invokes the doer with request r: the test of the request's body.
Do(r) ==
    /\ pc = "idle"
    /\ callerReq' = r
    /\ req' = r
    /\ pc' = IF Bypass(r) THEN "bypass" ELSE "send"
    /\ reqObjs' = <<r>>
    /\ UNCHANGED <<config, c, attempt, resp, err, stream, lastDo, ctx, timerFired,
                   sends, waits, predLog, getBodyLog, result, bo, boCall, prCall,
                   predCall, parked>>

\* next.Do(req) is called on the bypass: the request is handed to the doer, which
\* has not returned yet.
BypassSend ==
    /\ pc = "bypass"
    /\ sends' = sends + 1
    /\ pc' = "bypassInflight"
    /\ UNCHANGED <<config, c, callerReq, req, attempt, resp, err, stream, lastDo, ctx,
                   timerFired, waits, predLog, getBodyLog, result, bo, boCall, prCall,
                   predCall, reqObjs, parked>>

\* return next.Do(req): the doer returns outcome o
BypassDo(o) ==
    /\ pc = "bypassInflight"
    /\ stream' = o.stream
    /\ lastDo' = [resp |-> OutcomeResp(o, sends), err |-> o.err]
    /\ result' = Return(OutcomeResp(o, sends), o.err)
    /\ pc' = "done"
    /\ UNCHANGED <<config, c, callerReq, req, attempt, resp, err, ctx, timerFired, sends,
                   waits, predLog, getBodyLog, bo, boCall, prCall, predCall, reqObjs,
                   parked>>

\* next.Do(req) is called: the request is handed to the doer, which has not
\* returned yet.
Send ==
    /\ pc = "send"
    /\ sends' = sends + 1
    /\ pc' = "inflight"
    /\ UNCHANGED <<config, c, callerReq, req, attempt, resp, err, stream, lastDo, ctx,
                   timerFired, waits, predLog, getBodyLog, result, bo, boCall, prCall,
                   predCall, reqObjs, parked>>

\* resp, err = next.Do(req) returns outcome o; attempt++
Receive(o) ==
    /\ pc = "inflight"
    /\ resp' = OutcomeResp(o, sends)
    /\ err' = o.err
    /\ stream' = o.stream
    /\ lastDo' = [resp |-> OutcomeResp(o, sends), err |-> o.err]
    /\ attempt' = attempt + 1
    /\ pc' = IF ReadsBody(c, o.err) THEN "read" ELSE "decide"
    /\ UNCHANGED <<config, c, callerReq, req, ctx, timerFired, sends, waits, predLog,
                   getBodyLog, result, bo, boCall, prCall, predCall, reqObjs, parked>>

\* resp.Body, err = bufRespBody(resp.Body): the body is read from the connection
ReadBody ==
    /\ pc = "read"
    /\ LET buf == bufRespBody(resp.Body, stream)
       IN  /\ resp' = [resp EXCEPT !.Body = buf.body]
           /\ err' = buf.err
           /\ stream' = buf.stream
    /\ pc' = "decide"
    /\ UNCHANGED <<config, c, callerReq, req, attempt, lastDo, ctx, timerFired, sends,
                   waits, predLog, getBodyLog, result, bo, boCall, prCall, predCall,
                   reqObjs, parked>>

\* if attempt >= c.MaxAttempts || !c.ShouldRetry.ShouldRetry(attempt, req, resp, err)
\* { break }: the predicate, if it is asked, answers ans
Decide(ans) ==
    /\ pc = "decide"
    /\ IF Exhausted(attempt, c)
           THEN /\ ans = FALSE
                /\ predLog' = predLog
                /\ predCall' = predIdle
           ELSE /\ ans \in ShouldRetry(c.ShouldRetry, attempt, req, resp, err)
                /\ predLog' = Append(predLog, [attempt |-> attempt, answer |-> ans])
                /\ predCall' = [asked |-> TRUE, attempt |-> attempt, req |-> req,
                                resp |-> resp, err |-> err, ctx |-> ctx]
    /\ IF Exhausted(attempt, c) \/ Break(attempt, c, ans)
           THEN \* break; return resp, err
                /\ result' = Return(resp, err)
                /\ pc' = "done"
           ELSE /\ pc' = IF resp.isNil THEN "reset" ELSE "drain"
                /\ UNCHANGED result
    /\ UNCHANGED <<config, c, callerReq, req, attempt, resp, err, stream, lastDo, ctx,
                   timerFired, sends, waits, getBodyLog, bo, boCall, prCall, reqObjs,
                   parked>>

\* drain(resp.Body): up to DrainLimit bytes are read from the connection, and the
\* body is closed
Drain ==
    /\ pc = "drain"
    /\ LET dr == drain(resp.Body, stream)
       IN  /\ resp' = [resp EXCEPT !.Body = dr.body]
           /\ stream' = dr.stream
    /\ pc' = "reset"
    /\ UNCHANGED <<config, c, callerReq, req, attempt, err, lastDo, ctx, timerFired,
                   sends, waits, predLog, getBodyLog, result, bo, boCall, prCall,
                   predCall, reqObjs, parked>>

\* req, err = resetRequest(req); if err != nil { return resp, err }: GetBody, if
\* it is called, returns g
Reset(g) ==
    /\ pc = "reset"
    /\ LET rst == resetRequest(req, g, Len(getBodyLog) + 1)
       IN  IF HasBody(req) /\ ~req.GetBody
               THEN \* req.GetBody is a nil func
                    /\ g = "stream"
                    /\ pc' = "panic"
                    /\ UNCHANGED <<req, err, reqObjs, getBodyLog, result>>
           ELSE /\ IF HasBody(req) THEN getBodyLog' = Append(getBodyLog, g)
                                   ELSE g = "stream" /\ getBodyLog' = getBodyLog
                /\ req' = rst.req
                /\ err' = rst.err
                /\ IF rst.err # NoErr
                       THEN \* return resp, err
                            /\ result' = Return(resp, rst.err)
                            /\ pc' = "done"
                            /\ UNCHANGED reqObjs
                       ELSE /\ reqObjs' = Store(reqObjs, rst.req)
                            /\ pc' = "backoff"
                            /\ UNCHANGED result
    /\ UNCHANGED <<config, c, callerReq, attempt, resp, stream, lastDo, ctx, timerFired,
                   sends, waits, predLog, bo, boCall, prCall, predCall, parked>>

\* The select evaluates its channels: time.After(c.Backoff.Backoff(attempt))
\* starts the timer, rand.Float64() (if called) returning r.
StartWait(r) ==
    /\ pc = "backoff"
    /\ RandUsed(c.Backoff[1]) \/ r = Float(0, 1)
    /\ \E d \in BackoffWait(c, attempt, r) : waits' = Append(waits, d)
    /\ timerFired' = FALSE
    /\ pc' = "select"
    /\ UNCHANGED <<config, c, callerReq, req, attempt, resp, err, stream, lastDo, ctx,
                   sends, predLog, getBodyLog, result, bo, boCall, prCall, predCall,
                   reqObjs, parked>>

\* The goroutine reaches the select: a ready case is taken, one of them at random
\* when both are ready; with no case ready it blocks.
SelectPoll(takeDone) ==
    /\ pc = "select"
    /\ IF ctx = "active" /\ ~timerFired
           THEN /\ takeDone = FALSE
                /\ pc' = "blocked"
                /\ UNCHANGED result
       ELSE IF takeDone
           THEN /\ ctx # "active"
                /\ result' = CancelResult(resp, ctx)
                /\ pc' = "done"
           ELSE /\ timerFired
                /\ pc' = "send"
                /\ UNCHANGED result
    /\ UNCHANGED <<config, c, callerReq, req, attempt, resp, err, stream, lastDo, ctx,
                   timerFired, sends, waits, predLog, getBodyLog, bo, boCall, prCall,
                   predCall, reqObjs, parked>>

\* The timer of time.After fires; a goroutine blocked in the select resumes the loop.
TimerFire ==
    /\ pc \in {"select", "blocked"}
    /\ ~timerFired
    /\ timerFired' = TRUE
    /\ pc' = IF pc = "blocked" THEN "send" ELSE pc
    /\ UNCHANGED <<config, c, callerReq, req, attempt, resp, err, stream, lastDo, ctx,
                   sends, waits, predLog, getBodyLog, result, bo, boCall, prCall,
                   predCall, reqObjs, parked>>

\* The request's context is cancelled or its deadline passes; a goroutine blocked
\* in the select returns.
Cancel(e) ==
    /\ pc \in {"idle", "bypass", "bypassInflight", "send", "inflight", "read", "decide",
              "drain", "reset", "backoff", "select", "blocked"}
    /\ ctx = "active"
    /\ ctx' = e
    /\ IF pc = "blocked"
           THEN /\ result' = CancelResult(resp, e)
                /\ pc' = "done"
           ELSE UNCHANGED <<result, pc>>
    /\ UNCHANGED <<config, c, callerReq, req, attempt, resp, err, stream, lastDo,
                   timerFired, sends, waits, predLog, getBodyLog, bo, boCall, prCall,
                   predCall, reqObjs, parked>>

Next ==
    \/ \E r \in Requests : Do(r)
    \/ BypassSend
    \/ \E o \in DoerOutcomes : BypassDo(o)
    \/ Send
    \/ \E o \in DoerOutcomes : Receive(o)
    \/ ReadBody
    \/ \E ans \in BOOLEAN : Decide(ans)
    \/ Drain
    \/ \E g \in GetBodyOutcomes : Reset(g)
    \/ \E r \in LoopDraws : StartWait(r)
    \/ \E takeDone \in BOOLEAN : SelectPoll(takeDone)
    \/ TimerFire
    \/ \E e \in {"context.Canceled", "context.DeadlineExceeded"} : Cancel(e)

Spec == Init /\ [][Next]_vars

----------------------------------------------------------------------------
(* ExponentialBackoff.Backoff examined on its own *)

\* time.Second, in nanoseconds
Second == 1000000000

\* the configurations examined: small counts, with every kind of Multiplier
\* and Jitter; two rows of TestExponentialBackoff_Backoff in nanoseconds
\* ('fixed delay' and 'base more than max'); and delays next to 2^53 and at
\* the end of the int64 range
Backoffs ==
    { Exponential(Ns(base), mult, jitter, Ns(max)) :
        base \in {-10, 0, 7, 10, 30},
        mult \in {Float(-1, 1), Float(0, 1), Float(1, 2), Float(1, 1), Float(6, 5), Float(3, 2),
                  Float(2, 1), Inf},
        jitter \in {Float(-1, 5), Float(0, 1), Float(1, 5), Float(1, 1), Float(2, 1),
                    Float(5, 1)},
        max \in {0, 10, 25} }
    \cup { Exponential(Ns(Second), Float(0, 1), Float(0, 1), Ns(0)),
           Exponential(Ns(2 * Second), Float(0, 1), Float(0, 1), Ns(Second)) }
    \cup { Exponential(base, mult, Float(0, 1), max) :
             base \in {<<1, 0>>, <<1, 1>>, <<1, 3>>, MaxDuration},
             mult \in {Float(0, 1), Float(1, 1), Float(2, 1)},
             max \in {Ns(0), <<1, 3>>} }

\* values of rand.Float64(), which lie in [0, 1)
BackoffDraws == {Float(0, 1), Float(1, 4), Float(2, 5), Float(1, 2), Float(7, 8)}

InitBackoff ==
    /\ config = NilConfig
    /\ c = normalize(ConfigCopy(NilConfig))
    /\ pc = "idle"
    /\ callerReq = NilReq
    /\ req = NilReq
    /\ attempt = 0
    /\ resp = NilResp
    /\ err = NoErr
    /\ stream = NoStream
    /\ lastDo = NoResult
    /\ ctx = "active"
    /\ timerFired = FALSE
    /\ sends = 0
    /\ waits = <<>>
    /\ predLog = <<>>
    /\ getBodyLog = <<>>
    /\ result = NoResult
    /\ bo \in Backoffs
    /\ boCall = boIdle
    /\ prCall = prIdle
    /\ predCall = predIdle
    /\ reqObjs = <<>>
    /\ parked = <<>>

\* bo.Backoff(n), rand.Float64() returning r if it is called
CallBackoff(n, r) ==
    /\ RandUsed(bo) \/ r = Float(0, 1)
    /\ \E d \in Backoff(bo, n, r) : boCall' = [n |-> n, r |-> r, out |-> d]
    /\ UNCHANGED <<loopVars, bo, prCall>>

NextBackoff == \E n \in 1..MaxN, r \in BackoffDraws : CallBackoff(n, r)

SpecBackoff == InitBackoff /\ [][NextBackoff]_vars

----------------------------------------------------------------------------
(* Properties of the retry loop *)

\* MaxAttempts as documented: config.MaxAttempts, or 3 when it is < 1 or config is nil
EffectiveMaxAttempts ==
    IF config.isNil \/ config.MaxAttempts < 1 THEN 3 ELSE config.MaxAttempts

\* the caller's request has a body and no regenerator
NonReplayable == callerReq.Body = "stream" /\ ~callerReq.GetBody

\* the invocation has been entered with a request that can be replayed
Replayable == pc # "idle" /\ ~NonReplayable

LastAnswer == predLog[Len(predLog)].answer

AllAnswersTrue == \A i \in 1..Len(predLog) : predLog[i].answer

\* the invocation returned out of the loop's break: attempts exhausted or veto
EndedByBreak ==
    /\ pc = "done"
    /\ Replayable
    /\ \/ attempt >= EffectiveMaxAttempts
       \/ predLog # <<>> /\ ~LastAnswer

\* the response r is the response object the doer returned on its latest call
SameResponse(r) ==
    /\ r.isNil = lastDo.resp.isNil
    /\ r.id = lastDo.resp.id
    /\ r.StatusCode = lastDo.resp.StatusCode

\* C1: the number of calls made to the underlying doer never exceeds the
\* effective MaxAttempts, whatever the doer, the predicate, the backoff and the
\* cancellation do.
C1_AttemptsBounded == sends <= EffectiveMaxAttempts

C1_Witness ==
    /\ pc = "done"
    /\ sends = EffectiveMaxAttempts
    /\ sends >= 3
    /\ AllAnswersTrue

\* C2: with a predicate that always answers true, no cancellation and no failure
\* of the body regenerator, a replayable request is sent exactly MaxAttempts
\* times with exactly MaxAttempts - 1 backoff waits: one wait has been started
\* after each send that is followed by another, none after the last.
C2_ExactlyMaxAttempts ==
    /\ (Replayable /\ pc \in {"send", "select", "blocked"}) => Len(waits) = sends
    /\ (/\ pc = "done"
        /\ Replayable
        /\ ctx = "active"
        /\ AllAnswersTrue
        /\ \A i \in 1..Len(getBodyLog) : getBodyLog[i] # "error")
       => /\ sends = EffectiveMaxAttempts
          /\ Len(waits) = EffectiveMaxAttempts - 1

C2_Witness ==
    /\ pc = "done"
    /\ Replayable
    /\ ctx = "active"
    /\ AllAnswersTrue
    /\ c.ShouldRetry = "custom"
    /\ Len(getBodyLog) = 2
    /\ getBodyLog[2] = "stream"
    /\ sends = 3
    /\ Len(waits) = 2

\* C3: a request with a body other than nil and NoBody and without GetBody is
\* sent exactly once; neither the predicate nor the backoff nor GetBody is
\* consulted, and the doer's response and error are returned untouched.
C3_NonReplayableSentOnce ==
    (pc = "done" /\ NonReplayable)
        => /\ sends = 1
           /\ predLog = <<>>
           /\ waits = <<>>
           /\ getBodyLog = <<>>
           /\ result = lastDo
           /\ stream.read = 0
           /\ stream.closed = 0

C3_Witness ==
    /\ pc = "done"
    /\ NonReplayable
    /\ c.MaxAttempts = 3
    /\ c.ShouldRetry = "DefaultShouldRetry"
    /\ result.err = ConnReset

\* the loop is past the break test of the attempt whose response it holds
Decided == pc \notin {"inflight", "read", "decide"}

\* C4 as stated: a veto after attempt j < MaxAttempts gives exactly j sends and
\* the outcome of attempt j; and with the default predicate a first attempt whose
\* response has a 2xx status is never retried.
C4_VetoStops ==
    (pc = "done" /\ Replayable /\ predLog # <<>> /\ ~LastAnswer)
        => /\ Len(predLog) < EffectiveMaxAttempts
           /\ sends = Len(predLog)
           /\ attempt = sends
           /\ SameResponse(result.resp)
           /\ result.resp = resp
           /\ result.err = err

C4_Original ==
    /\ C4_VetoStops
    /\ (/\ Replayable
        /\ c.ShouldRetry = "DefaultShouldRetry"
        /\ sends = 1
        /\ Decided
        /\ lastDo.resp.StatusCode \in 200..299)
       => pc = "done"

\* C4 amended: the same, the 2xx case being one where the attempt ended without
\* error, that is the doer returned no error and, with ReadResponse, the body
\* was read to its end.
C4_Amended ==
    /\ C4_VetoStops
    /\ (/\ Replayable
        /\ c.ShouldRetry = "DefaultShouldRetry"
        /\ sends = 1
        /\ Decided
        /\ lastDo.resp.StatusCode \in 200..299
        /\ lastDo.err = NoErr
        /\ ~(c.ReadResponse /\ stream.present /\ stream.readErr # NoErr))
       => /\ pc = "done"
          /\ result.err = NoErr
          /\ SameResponse(result.resp)

C4_Witness ==
    /\ pc = "done"
    /\ Replayable
    /\ c.MaxAttempts = 3
    /\ c.ShouldRetry = "custom"
    /\ Len(predLog) = 2
    /\ ~LastAnswer
    /\ sends = 2

\* C5: when a response with a body is discarded for a retry, the stream the
\* doer returned has been closed before the next call of the doer.
C5_ClosedBeforeNextSend ==
    (/\ pc \in {"send", "select", "blocked"}
     /\ sends >= 1
     /\ ~lastDo.resp.isNil
     /\ lastDo.resp.Body.kind = "orig")
        => stream.closed >= 1

\* C6: a cancellation that reaches the invocation in the backoff wait before the
\* timer has fired makes it return (nil, ctx.Err()) without a further send.
C6_CancelInWait ==
    [][ /\ (pc = "blocked" /\ ctx = "active" /\ ctx' # "active")
           => /\ pc' = "done"
              /\ result' = [resp |-> NilResp, err |-> <<ctx'>>]
              /\ sends' = sends
        /\ (pc = "select" /\ ctx # "active" /\ ~timerFired /\ pc' # "select")
           => /\ pc' = "done"
              /\ result' = [resp |-> NilResp, err |-> <<ctx>>]
              /\ sends' = sends
        /\ (pc = "done") => (sends' = sends /\ result' = result) ]_vars

C6_Witness ==
    /\ pc = "done"
    /\ ctx = "context.DeadlineExceeded"
    /\ ~timerFired
    /\ ~resp.isNil
    /\ result = [resp |-> NilResp, err |-> <<"context.DeadlineExceeded">>]
    /\ sends = 2
    /\ c.MaxAttempts = 3

\* C7 as stated: when the loop ends by exhaustion or veto, the pair returned is
\* the pair the last call of the doer returned.
C7_Original ==
    EndedByBreak => (SameResponse(result.resp) /\ result.err = lastDo.err)

\* C7 amended: the response returned is the response object of the last call of
\* the doer.  Without ReadResponse, or when that call returned an error, the pair
\* is the doer's pair, body untouched.  With ReadResponse and no error from the
\* doer, the error is the outcome of reading the body to its end.  An error of
\* the doer is never replaced by nil.
C7_Amended ==
    EndedByBreak
        => /\ SameResponse(result.resp)
           /\ result.resp.id \in {0, sends}
           /\ (lastDo.err # NoErr => result.err = lastDo.err)
           /\ (~c.ReadResponse \/ lastDo.err # NoErr)
                 => (result = lastDo /\ stream.read = 0 /\ stream.closed = 0)
           /\ (c.ReadResponse /\ lastDo.err = NoErr)
                 => /\ result.err = (IF stream.present THEN stream.readErr ELSE NoErr)
                    /\ result.resp.Body.kind # "orig"

C7_Witness ==
    /\ EndedByBreak
    /\ attempt = 3
    /\ c.ReadResponse
    /\ lastDo.err = NoErr
    /\ result.err = ConnReset

\* C8: when GetBody fails after the predicate asked for a retry, the invocation
\* returns at once the response of the attempt just made with the regeneration
\* error: no wait, no further send.
C8_RegenerationFailure ==
    (pc = "done" /\ getBodyLog # <<>> /\ getBodyLog[Len(getBodyLog)] = "error")
        => /\ ErrorsIs(result.err, "GetBody failed")
           /\ result.err # lastDo.err
           /\ SameResponse(result.resp)
           /\ LastAnswer
           /\ sends = Len(predLog)
           /\ Len(waits) = sends - 1
           /\ Len(getBodyLog) = sends

C8_Witness ==
    /\ pc = "done"
    /\ getBodyLog = <<"stream", "error">>
    /\ sends = 2
    /\ ~result.resp.isNil
    /\ lastDo.err = NoErr
    /\ ctx = "active"

----------------------------------------------------------------------------
(* Properties of ExponentialBackoff.Backoff *)

Called == boCall.n >= 1

\* every value the expression P may have is below every value of Q
AllLess(P, Q) == \A p \in P, q \in Q : Less(p, q)

\* C9: with MaxDelay > 0, Backoff(n) <= MaxDelay for every configuration and
\* every random draw; a jittered value above MaxDelay by delta gives
\* MaxDelay - delta.
C9_Ceiling ==
    (Called /\ DLess(Ns(0), bo.MaxDelay))
        => /\ DLeq(boCall.out, bo.MaxDelay)
           /\ LET jittered == BackoffJittered(bo, boCall.n, boCall.r)
                  delta    == RSub(jittered, Float64(bo.MaxDelay))
              IN  (RandUsed(bo) /\ AllLess(Rat(0), delta))
                      => boCall.out \in Durations(RSub(Float64(bo.MaxDelay), delta))

\* C10: Backoff(n) >= 0 for every configuration with Jitter >= 0 and every
\* random draw.
C10_NonNegative ==
    (Called /\ ~RLess(bo.Jitter, Rat(0))) => DLeq(Ns(0), boCall.out)

\* the unjittered backoff in constant mode: BaseDelay, capped by a positive
\* MaxDelay and floored at zero
ConstantDelay ==
    LET capped == IF DLess(Ns(0), bo.MaxDelay) /\ DLess(bo.MaxDelay, bo.BaseDelay)
                      THEN bo.MaxDelay ELSE bo.BaseDelay
    IN  IF DLess(capped, Ns(0)) THEN Ns(0) ELSE capped

\* x lies between the whole durations of lo and hi, lo and hi in either order
Between(x, lo, hi) ==
    /\ \E d \in Durations(RMin(lo, hi)) : DLeq(d, x)
    /\ \E d \in Durations(RMax(lo, hi)) : DLeq(x, d)

\* d * (1 + sign * Jitter)
JitterBound(d, sign) == RMul(Float64(d), RAdd(Rat(1), RMul(Rat(sign), bo.Jitter)))

\* C11: BaseDelay == 0 gives Backoff(n) == 0 for every attempt number, whatever
\* Multiplier, Jitter, MaxDelay and the random draw are; so does NoBackoff().
C11_ZeroBase ==
    (Called /\ bo.BaseDelay = Ns(0)) => boCall.out = Ns(0)

\* C12 as stated: with Multiplier <= 0, Backoff(n) is BaseDelay when Jitter == 0
\* and within BaseDelay*(1 - Jitter) .. BaseDelay*(1 + Jitter) when Jitter > 0,
\* for every BaseDelay and MaxDelay.
C12_Original ==
    (Called /\ ~RLess(Rat(0), bo.Multiplier))
        => /\ bo.Jitter = Rat(0) => boCall.out = bo.BaseDelay
           /\ RLess(Rat(0), bo.Jitter)
                 => Between(boCall.out, JitterBound(bo.BaseDelay, -1),
                                        JitterBound(bo.BaseDelay, 1))

\* the Duration d has a magnitude of 2^53 at most, so float64(d) is d
Exact(d) == DLeq(<<-1, 0>>, d) /\ DLeq(d, <<1, 0>>)

\* every value of the expression P is finite and below 2^53 in magnitude
Within(P) ==
    \A p \in P : /\ p[2] # 0
                 /\ \/ p[4] = 0
                    \/ p[4] = 1 /\ p[1] < 0
                    \/ p[4] = -1 /\ p[1] > 0

\* C12 amended: with Multiplier <= 0, and BaseDelay and MaxDelay of a magnitude
\* of 2^53 at most, the delay is constant at D, which is BaseDelay capped by
\* MaxDelay (when MaxDelay > 0) and floored at 0: Backoff(n) is D when
\* Jitter <= 0, and within D*(1 - Jitter) .. D*(1 + Jitter), cut to a whole
\* duration, when Jitter > 0 and D*(1 + Jitter) is below 2^53 too.
C12_Amended ==
    (Called /\ ~RLess(Rat(0), bo.Multiplier) /\ Exact(bo.BaseDelay) /\ Exact(bo.MaxDelay))
        => /\ ~RLess(Rat(0), bo.Jitter) => boCall.out = ConstantDelay
           /\ (RLess(Rat(0), bo.Jitter) /\ Within(JitterBound(ConstantDelay, 1)))
                 => Between(boCall.out, JitterBound(ConstantDelay, -1),
                                        JitterBound(ConstantDelay, 1))

C12_Witness ==
    /\ Called
    /\ boCall.n = 4
    /\ bo = Exponential(Ns(30), Float(0, 1), Float(1, 5), Ns(25))
    /\ boCall.r = Float(7, 8)
    /\ boCall.out = Ns(21)

\* BaseDelay * Multiplier^(n-1)
Grown(n) == RMul(Float64(bo.BaseDelay), RPow(bo.Multiplier, n - 1))

\* C13: with Multiplier > 1, Jitter == 0 and BaseDelay >= 0, Backoff(n+1) >=
\* Backoff(n); with MaxDelay > 0, once Backoff(n) == MaxDelay so is Backoff(m)
\* for m > n; below the ceiling Backoff(n) is BaseDelay * Multiplier^(n-1).
C13_Monotone ==
    [][ (/\ RLess(Rat(1), bo.Multiplier)
         /\ bo.Jitter = Rat(0)
         /\ DLeq(Ns(0), bo.BaseDelay)
         /\ boCall'.n >= 1)
        => /\ (DLeq(bo.MaxDelay, Ns(0)) \/ AllLess(Grown(boCall'.n), Float64(bo.MaxDelay)))
                 => boCall'.out \in Durations(Grown(boCall'.n))
           /\ (boCall.n >= 1 /\ boCall'.n = boCall.n + 1)
                 => DLeq(boCall.out, boCall'.out)
           /\ (boCall.n >= 1 /\ boCall'.n > boCall.n /\ DLess(Ns(0), bo.MaxDelay)
                             /\ boCall.out = bo.MaxDelay)
                 => boCall'.out = bo.MaxDelay ]_vars

----------------------------------------------------------------------------
(* Properties of the retry loop, continued *)

\* the draws rand.Float64() may have given to a call of Backoff on b
DrawsOf(b) == IF RLess(Rat(0), b.Jitter) THEN LoopDraws ELSE {Float(0, 1)}

\* the policies the normalised configurations hold
LoopBackoffs == { normalize(ConfigCopy(cfg)).Backoff[1] : cfg \in Configs }

\* the Durations Backoff(i) may return on each policy, over the draws, for the
\* attempt numbers that are followed by a wait
WaitsOf ==
    [b \in LoopBackoffs |->
        [i \in 1..MaxK |-> UNION { Backoff(b, i, r) : r \in DrawsOf(b) }]]

\* k times the Duration d
Times(d, k) == <<d[1] * k, d[2] * k>>

\* C14: the i-th wait of an invocation is Backoff(i), i being the number of the
\* attempt just completed, one call of Backoff per wait in the order 1, 2, 3,
\* ...; without jitter the first wait is BaseDelay (when MaxDelay does not cap
\* it), and with Multiplier 2 the waits are BaseDelay, 2*BaseDelay, 4*BaseDelay
\* up to MaxDelay.
C14_WaitsFollowBackoff ==
    LET b == c.Backoff[1]
    IN  /\ Len(waits) <= sends
        /\ \A i \in 1..Len(waits) : waits[i] \in WaitsOf[b][i]
        /\ (/\ b.Jitter = Rat(0) /\ DLeq(Ns(0), b.BaseDelay)
            /\ (b.MaxDelay = Ns(0) \/ DLeq(b.BaseDelay, b.MaxDelay))
            /\ waits # <<>>)
           => waits[1] = b.BaseDelay
        /\ (b.Jitter = Rat(0) /\ b.Multiplier = Rat(2) /\ DLeq(Ns(0), b.BaseDelay))
           => \A i \in 1..Len(waits) :
                 \/ waits[i] = Times(b.BaseDelay, Pow2(i - 1))
                 \/ /\ DLess(Ns(0), b.MaxDelay)
                    /\ DLess(b.MaxDelay, Times(b.BaseDelay, Pow2(i - 1)))
                    /\ waits[i] = b.MaxDelay

C14_Witness ==
    /\ pc = "done"
    /\ config = TestRetryConfig
    /\ sends = 4
    /\ waits = <<Ns(50), Ns(100), Ns(200)>>

----------------------------------------------------------------------------
(* The retry predicates examined on their own *)

\* the answer of a named retryer; "always" and "never" are ShouldRetryerFuncs
\* with a fixed answer
RetryerAnswer(p, a, r, rsp, e) ==
    CASE p = "DefaultShouldRetry" -> DefaultShouldRetry(a, r, rsp, e)
      [] p = "OnlyIdempotentShouldRetry" -> OnlyIdempotentShouldRetry(a, r, rsp, e)
      [] p = "always" -> TRUE
      [] OTHER -> FALSE

PredAttempts == 1..MaxK

PredMethods == {"GET", "HEAD", "OPTIONS", "TRACE", "POST", "PUT", "PATCH", "DELETE",
                "CONNECT", ""}

PredStatuses == {200, 204, 302, 400, 404, 429, 499, 500, 501, 502, 503, 599}

PredResponses == {NilResp} \cup { Response(1, st, NilBody) : st \in PredStatuses }

PredErrors ==
    { NoErr, <<"EOF">>, <<"wrapError", "EOF">>, <<"unexpected EOF">>, ConnReset,
      <<"net.OpError", "ECONNABORTED">>, <<"EPIPE">>, <<"netError{timeout}">>,
      <<"netError{}">>, <<"netError{temporary}">>, <<"net.OpError", "ETIMEDOUT">>,
      <<"url.Error", "netError{timeout}">>, <<"url.Error", "wrapError", "netError{timeout}">>,
      <<"url.Error", "net.OpError", "ETIMEDOUT">>, <<"url.Error", "net.OpError", "EPIPE">>,
      <<"url.Error", "net.OpError", "netError{}">>,
      ProtoErr, <<"context.Canceled">>, <<"context.DeadlineExceeded">> }

\* lists of retryers handed to AllRetryers
RetryerNames == {"DefaultShouldRetry", "OnlyIdempotentShouldRetry", "always", "never"}

RetryerLists ==
    {<<>>} \cup { <<p>> : p \in RetryerNames } \cup { <<p, q>> : p, q \in RetryerNames }

\* the arguments of the call are drawn here; no predicate has been called yet
InitShouldRetry ==
    /\ config = NilConfig
    /\ c = normalize(ConfigCopy(NilConfig))
    /\ pc = "idle"
    /\ callerReq = NilReq
    /\ req = NilReq
    /\ attempt = 0
    /\ resp = NilResp
    /\ err = NoErr
    /\ stream = NoStream
    /\ lastDo = NoResult
    /\ ctx = "active"
    /\ timerFired = FALSE
    /\ sends = 0
    /\ waits = <<>>
    /\ predLog = <<>>
    /\ getBodyLog = <<>>
    /\ result = NoResult
    /\ bo = NoBackoff
    /\ boCall = boIdle
    /\ \E a \in PredAttempts, m \in PredMethods, rsp \in PredResponses, e \in PredErrors :
          prCall = [prIdle EXCEPT !.attempt = a, !.req = Request(m, "nil", FALSE),
                                  !.resp = rsp, !.err = e]
    /\ predCall = predIdle
    /\ reqObjs = <<>>
    /\ parked = <<>>

\* DefaultShouldRetry(attempt, req, resp, err) on the arguments drawn.
\* It is not given a nil response together with a nil error.
CallDefaultShouldRetry ==
    /\ ~(prCall.err = NoErr /\ prCall.resp.isNil)
    /\ prCall' = [prCall EXCEPT
                    !.fn = "DefaultShouldRetry",
                    !.out = DefaultShouldRetry(prCall.attempt, prCall.req, prCall.resp,
                                               prCall.err)]
    /\ UNCHANGED <<loopVars, bo, boCall>>

\* OnlyIdempotentShouldRetry(attempt, req, resp, err) on the arguments drawn
CallOnlyIdempotentShouldRetry ==
    /\ prCall' = [prCall EXCEPT
                    !.fn = "OnlyIdempotentShouldRetry",
                    !.out = OnlyIdempotentShouldRetry(prCall.attempt, prCall.req,
                                                      prCall.resp, prCall.err)]
    /\ UNCHANGED <<loopVars, bo, boCall>>

\* AllRetryers(list...).ShouldRetry(a, r, rsp, e)
CallAllRetryers(list, a, r, rsp, e) ==
    /\ ~(e = NoErr /\ rsp.isNil)
    /\ prCall' = [fn |-> "AllRetryers", list |-> list, attempt |-> a, req |-> r,
                  resp |-> rsp, err |-> e,
                  out |-> AllRetryers([i \in 1..Len(list) |->
                                          RetryerAnswer(list[i], a, r, rsp, e)])]
    /\ UNCHANGED <<loopVars, bo, boCall>>

NextShouldRetry == CallDefaultShouldRetry \/ CallOnlyIdempotentShouldRetry

SpecShouldRetry == InitShouldRetry /\ [][NextShouldRetry]_vars

\* the arguments AllRetryers is examined on
NextAllRetryers ==
    \E list \in RetryerLists, m \in {"GET", "POST"},
       rsp \in {NilResp, Response(1, 400, NilBody), Response(1, 500, NilBody)},
       e \in {NoErr, ConnReset, ProtoErr} :
          CallAllRetryers(list, 1, Request(m, "nil", FALSE), rsp, e)

\* a behaviour is one application of AllRetryers on its own, or one invocation
\* through a middleware configured with
\* AllRetryers(DefaultShouldRetry, OnlyIdempotentShouldRetry)
InitRetryers == Init /\ config.ShouldRetry = "AllRetryers"

NextRetryers ==
    \/ pc = "idle" /\ prCall = prIdle /\ NextAllRetryers
    \/ prCall = prIdle /\ Next

SpecRetryers == InitRetryers /\ [][NextRetryers]_vars

----------------------------------------------------------------------------
(* Properties of the retry predicates *)

\* the error chains that are or wrap io.EOF, ECONNRESET, ECONNABORTED or EPIPE,
\* or whose first net.Error reports Timeout() == true
RetryableErrors ==
    { <<"EOF">>, <<"wrapError", "EOF">>, ConnReset, <<"net.OpError", "ECONNABORTED">>,
      <<"EPIPE">>, <<"netError{timeout}">>, <<"net.OpError", "ETIMEDOUT">>,
      <<"url.Error", "netError{timeout}">>, <<"url.Error", "net.OpError", "ETIMEDOUT">>,
      <<"url.Error", "net.OpError", "EPIPE">>, <<"context.DeadlineExceeded">> }

IdempotentMethods == {"GET", "HEAD", "OPTIONS", "TRACE"}

\* C15: with no transport error and a response received, DefaultShouldRetry
\* answers true exactly when the status is 500, 429 or above 501, whatever the
\* attempt number and the request.
C15_StatusDecides ==
    (prCall.fn = "DefaultShouldRetry" /\ prCall.err = NoErr) =>
        (prCall.out <=> (prCall.resp.StatusCode \in {500, 429} \/ prCall.resp.StatusCode > 501))

\* a POST answered 501 on the second attempt is not retried
C15_Witness ==
    /\ prCall.fn = "DefaultShouldRetry"
    /\ prCall.err = NoErr
    /\ prCall.resp.StatusCode = 501
    /\ prCall.attempt = 2
    /\ prCall.req.Method = "POST"
    /\ ~prCall.out

\* C16: with a transport error, DefaultShouldRetry answers true exactly when
\* the error is or wraps EOF, connection-reset, connection-aborted or
\* broken-pipe, or is a network error reporting a timeout; the response, nil or
\* not, plays no part.
C16_ErrorDecides ==
    (prCall.fn = "DefaultShouldRetry" /\ prCall.err # NoErr) =>
        (prCall.out <=> prCall.err \in RetryableErrors)

\* connection-aborted beside a 200 response is retried
C16_Witness ==
    /\ prCall.fn = "DefaultShouldRetry"
    /\ prCall.err = <<"net.OpError", "ECONNABORTED">>
    /\ prCall.resp.StatusCode = 200
    /\ prCall.out

\* C17: DefaultShouldRetry answers true for a network error whose Temporary()
\* is true and whose Timeout() is false.
C17_TemporaryRetried ==
    (prCall.fn = "DefaultShouldRetry" /\ prCall.err = <<"netError{temporary}">>) => prCall.out

\* C18: OnlyIdempotentShouldRetry answers true exactly when the method is GET,
\* HEAD, OPTIONS or TRACE, whatever the attempt number, the response and the
\* error.
C18_MethodDecides ==
    prCall.fn = "OnlyIdempotentShouldRetry" =>
        (prCall.out <=> prCall.req.Method \in IdempotentMethods)

\* a PUT that met a connection reset on the first attempt is not retried
C18_Witness ==
    /\ prCall.fn = "OnlyIdempotentShouldRetry"
    /\ prCall.req.Method = "PUT"
    /\ prCall.err = ConnReset
    /\ prCall.attempt = 1
    /\ ~prCall.out

\* C19: AllRetryers(p1..pN) answers true exactly when every pi answers true on
\* the same input (the empty list answers true); a middleware configured with
\* AllRetryers(DefaultShouldRetry, OnlyIdempotentShouldRetry) therefore never
\* sends a POST, PUT, PATCH or DELETE request more than once.
C19_Conjunction ==
    /\ prCall.fn = "AllRetryers" =>
          (prCall.out <=>
              \A i \in 1..Len(prCall.list) :
                  RetryerAnswer(prCall.list[i], prCall.attempt, prCall.req, prCall.resp,
                                prCall.err))
    /\ (c.ShouldRetry = "AllRetryers"
          /\ callerReq.Method \in {"POST", "PUT", "PATCH", "DELETE"}) => sends <= 1

\* a DELETE without body answered 500 under the composed predicate: the default
\* predicate alone would retry, the composition vetoes and one request is sent
C19_Witness ==
    /\ pc = "done"
    /\ c.ShouldRetry = "AllRetryers"
    /\ c.MaxAttempts = 3
    /\ callerReq.Method = "DELETE"
    /\ Replayable
    /\ lastDo.resp.StatusCode = 500
    /\ predLog = <<[attempt |-> 1, answer |-> FALSE]>>
    /\ sends = 1

----------------------------------------------------------------------------
(* Properties of the configuration defaults *)

\* the caller passed no usable MaxAttempts: nil config, or MaxAttempts <= 0
NoMaxAttempts == config.isNil \/ config.MaxAttempts <= 0

\* C20: with a nil config, or a config whose MaxAttempts is zero or negative,
\* the effective maximum is 3: when every outcome is retryable and nothing is
\* cancelled the doer is called exactly 3 times. A nil ShouldRetry becomes
\* DefaultShouldRetry, a nil Backoff the default exponential backoff, and
\* ReadResponse is on only if the caller set it.
C20_Defaults ==
    /\ NoMaxAttempts => c.MaxAttempts = 3
    /\ (/\ NoMaxAttempts
        /\ pc = "done"
        /\ Replayable
        /\ ctx = "active"
        /\ AllAnswersTrue
        /\ \A i \in 1..Len(getBodyLog) : getBodyLog[i] # "error")
       => sends = 3
    /\ (config.isNil \/ config.ShouldRetry = "nil") => c.ShouldRetry = "DefaultShouldRetry"
    /\ (config.isNil \/ config.Backoff = <<>>) =>
          c.Backoff = <<DefaultBackoff>>
    /\ c.ReadResponse <=> (~config.isNil /\ config.ReadResponse)

\* a config with MaxAttempts -1 and nothing else set: three sends, each answered
\* by a retryable outcome under the default predicate
C20_Witness ==
    /\ pc = "done"
    /\ ~config.isNil
    /\ config.MaxAttempts = -1
    /\ Replayable
    /\ ctx = "active"
    /\ c.ShouldRetry = "DefaultShouldRetry"
    /\ Len(predLog) = 2
    /\ AllAnswersTrue
    /\ ~c.ReadResponse
    /\ sends = 3

----------------------------------------------------------------------------
(* Properties of the retry loop: reading the response, the predicate's calls *)

\* the latest call of the doer returned, without error, a response whose body
\* fails partway through reading
Poisoned ==
    /\ sends > 0
    /\ lastDo.err = NoErr
    /\ lastDo.resp.Body.kind = "orig"
    /\ stream.readErr \notin {NoErr, <<"EOF">>}

\* the latest call of the doer returned 200, without error, with a body that
\* reads and closes cleanly
Clean200 ==
    /\ sends > 0
    /\ lastDo.err = NoErr
    /\ lastDo.resp.StatusCode = 200
    /\ lastDo.resp.Body.kind = "orig"
    /\ stream.readErr = NoErr
    /\ stream.closeErr = NoErr

\* the calls of the doer that have returned
Returned == IF pc \in {"inflight", "bypassInflight"} THEN sends - 1 ELSE sends

\* the predicate has been asked about the latest outcome of the doer
AskedAboutLatest == predCall.asked /\ predCall.attempt = attempt

\* C21: with ReadResponse, a body that fails partway makes the read failure the
\* error the predicate sees; if the predicate answers retry and GetBody does
\* not fail the invocation goes on (it can only end by cancellation); with the
\* default predicate a later 200 whose body reads cleanly ends the invocation
\* with that response, its whole body buffered, and no error. Without
\* ReadResponse the default predicate ends the invocation at the first 200
\* response, the body unread.
C21_ReadFailureRetried ==
    /\ (Replayable /\ c.ReadResponse /\ Poisoned /\ AskedAboutLatest) =>
          /\ predCall.attempt = Returned
          /\ predCall.err = stream.readErr
    /\ (/\ Replayable /\ c.ReadResponse /\ Poisoned /\ AskedAboutLatest
        /\ LastAnswer
        /\ \A i \in 1..Len(getBodyLog) : getBodyLog[i] # "error"
        /\ pc = "done")
       => ctx # "active" /\ result.err = <<ctx>>
    /\ (/\ Replayable /\ c.ReadResponse /\ c.ShouldRetry = "DefaultShouldRetry"
        /\ Clean200 /\ Decided)
       => /\ pc = "done"
          /\ result.err = NoErr
          /\ result.resp.id = sends
          /\ result.resp.StatusCode = 200
          /\ result.resp.Body.kind = "NopCloser"
          /\ result.resp.Body.len = stream.len
    /\ (/\ Replayable /\ ~c.ReadResponse /\ c.ShouldRetry = "DefaultShouldRetry"
        /\ sends > 0 /\ lastDo.err = NoErr /\ lastDo.resp.StatusCode = 200 /\ Decided)
       => /\ pc = "done"
          /\ result = lastDo
          /\ stream.read = 0

\* TestRetry_readResponse: the third send of the test's configuration returned
\* a clean 200 after two retries, and the invocation returned it
C21_Witness ==
    /\ pc = "done"
    /\ config = ReadResponseConfig
    /\ Clean200
    /\ sends = 3
    /\ predLog = <<[attempt |-> 1, answer |-> TRUE], [attempt |-> 2, answer |-> TRUE],
                   [attempt |-> 3, answer |-> FALSE]>>
    /\ waits = <<Ns(1), Ns(1)>>
    /\ result.err = NoErr
    /\ result.resp.Body.len = 5

\* C22: with ReadResponse, when the eager read fails after some bytes were
\* read, the response keeps a non-nil body that yields the bytes read before
\* the failure, both as the predicate sees it and as it is returned when this
\* was the last attempt.
C22_PartialKept ==
    (Replayable /\ c.ReadResponse /\ Poisoned /\ stream.failAt > 0) =>
        /\ AskedAboutLatest =>
              /\ predCall.resp.Body.kind # "nil"
              /\ predCall.resp.Body.len = stream.failAt
        /\ (pc = "done" /\ result.resp.id = sends) =>
              /\ result.resp.Body.kind # "nil"
              /\ result.resp.Body.len = stream.failAt

\* C23: the predicate is called at most once per attempt, after the attempt's
\* send returned, with the 1-based number of that attempt (1, 2, 3, ... in
\* order) and with that attempt's request, response and error; it is called
\* after attempt N exactly when N < MaxAttempts, so never after attempt
\* MaxAttempts and never when MaxAttempts is 1.
C23_PredicateCalls ==
    /\ \A i \in 1..Len(predLog) : predLog[i].attempt = i
    /\ Len(predLog) <= sends
    /\ Replayable =>
          Len(predLog) = Min(IF Decided THEN sends ELSE sends - 1, c.MaxAttempts - 1)
    /\ NonReplayable => predLog = <<>>
    /\ predCall.asked =>
          /\ predCall.attempt < c.MaxAttempts
          /\ predCall.attempt = Len(predLog)
          /\ predCall.req = reqObjs[predCall.attempt]
    /\ AskedAboutLatest =>
          /\ predCall.attempt = Returned
          /\ predCall.resp.isNil = lastDo.resp.isNil
          /\ predCall.resp.id = lastDo.resp.id
          /\ predCall.resp.StatusCode = lastDo.resp.StatusCode
          /\ ~c.ReadResponse => predCall.resp = lastDo.resp /\ predCall.err = lastDo.err
          /\ lastDo.err # NoErr => predCall.resp = lastDo.resp /\ predCall.err = lastDo.err

\* three attempts of three: the predicate was asked after the first and the
\* second, and not after the third
C23_Witness ==
    /\ pc = "done"
    /\ c.MaxAttempts = 3
    /\ c.ShouldRetry = "custom"
    /\ sends = 3
    /\ predLog = <<[attempt |-> 1, answer |-> TRUE], [attempt |-> 2, answer |-> TRUE]>>
    /\ ~predCall.asked
    /\ Len(reqObjs) = 3

----------------------------------------------------------------------------
(* Properties of the retry loop: the request of each attempt *)

\* the caller's request has a body and a regenerator, and the regenerator has
\* returned a body each time it was called
Regenerated ==
    /\ callerReq.Body = "stream"
    /\ callerReq.GetBody
    /\ \A i \in 1..Len(getBodyLog) : getBodyLog[i] = "stream"

\* C24: for a request with a body and a GetBody regenerator, GetBody is called
\* exactly once per retry and the request of each retried attempt carries the
\* body that call returned, never the body of an earlier attempt: the request
\* of attempt i carries body i - 1, body 0 being the caller's.
C24_FreshBody ==
    Regenerated =>
        /\ Len(getBodyLog) = (IF pc = "backoff" THEN Len(waits) + 1 ELSE Len(waits))
        /\ Len(reqObjs) = Len(getBodyLog) + 1
        /\ \A i \in 1..Len(reqObjs) :
              /\ reqObjs[i].Body = "stream"
              /\ reqObjs[i].bodyId = i - 1
        /\ pc \in {"backoff", "send", "select", "blocked"} =>
              /\ req = reqObjs[sends + 1]
              /\ Len(getBodyLog) = sends
        /\ pc \in {"inflight", "read", "decide", "drain", "reset"} =>
              /\ req = reqObjs[sends]
              /\ Len(getBodyLog) = sends - 1
        /\ pc = "done" => Len(getBodyLog) \in {sends - 1, sends}

\* TestRetry_post: a POST with a body sent three times, GetBody called twice
C24_Witness ==
    /\ pc = "done"
    /\ Regenerated
    /\ callerReq.Method = "POST"
    /\ sends = 3
    /\ getBodyLog = <<"stream", "stream">>
    /\ req.bodyId = 2
    /\ result.resp.id = 3

\* C28: the request of attempt N+1 is a new object, a copy of the request of
\* attempt N that differs from it in the Body field only, and no step modifies
\* the caller's request object or the request object of an earlier attempt.
C28_ShallowCopy ==
    [][ /\ \A i \in 1..Len(reqObjs) : i <= Len(reqObjs') /\ reqObjs'[i] = reqObjs[i]
        /\ (reqObjs = <<>> /\ reqObjs' # <<>>) => reqObjs' = <<callerReq'>>
        /\ (reqObjs # <<>> /\ req' # req) =>
              \/ req' = NilReq /\ pc' = "done"
              \/ /\ reqObjs' = Append(reqObjs, req')
                 /\ req = reqObjs[Len(reqObjs)]
                 /\ req'.id = req.id + 1
                 /\ req'.Method = req.Method
                 /\ req'.GetBody = req.GetBody
                 /\ ~(req.Body = "stream") => req'.Body = req.Body /\ req'.bodyId = req.bodyId
      ]_vars

\* the third request object of an invocation: two copies were made, each with
\* its own body, and the caller's object still has the body it came with
C28_Witness ==
    /\ Len(reqObjs) = 3
    /\ reqObjs[1] = callerReq
    /\ callerReq.Body = "stream"
    /\ callerReq.bodyId = 0
    /\ reqObjs[2].bodyId = 1
    /\ req = reqObjs[3]
    /\ req.id = 2
    /\ req.bodyId = 2

----------------------------------------------------------------------------
(* Two invocations running concurrently through one Retry-wrapped doer *)

\* The variables declared inside the DoerFunc, its parameter, and what belongs
\* to the invocation's request and to its calls of the doer: each invocation
\* has its own. config and c belong to the closure and are shared.
Frame ==
    [pc |-> pc, callerReq |-> callerReq, req |-> req, attempt |-> attempt, resp |-> resp,
     err |-> err, stream |-> stream, lastDo |-> lastDo, ctx |-> ctx,
     timerFired |-> timerFired, sends |-> sends, waits |-> waits, predLog |-> predLog,
     getBodyLog |-> getBodyLog, result |-> result, predCall |-> predCall,
     reqObjs |-> reqObjs]

IdleFrame ==
    [pc |-> "idle", callerReq |-> NilReq, req |-> NilReq, attempt |-> 0, resp |-> NilResp,
     err |-> NoErr, stream |-> NoStream, lastDo |-> NoResult, ctx |-> "active",
     timerFired |-> FALSE, sends |-> 0, waits |-> <<>>, predLog |-> <<>>,
     getBodyLog |-> <<>>, result |-> NoResult, predCall |-> predIdle, reqObjs |-> <<>>]

\* fault seeded to test the confinement: attempt is declared in the closure,
\* outside the DoerFunc, and the invocations share it
Resumed_sharedAttempt(f, cur) == [f EXCEPT !.attempt = cur.attempt]

\* the values with which an invocation parked with frame f resumes, cur being
\* the frame of the invocation that ran meanwhile
Resumed(f, cur) == f

ConcConfigs ==
    { RetryConfig(2, "custom", <<TestBackoff>>, FALSE),
      RetryConfig(3, "nil", <<TestBackoff>>, FALSE) }

ConcRequests ==
    { Request("GET", "nil", FALSE), Request("POST", "stream", TRUE),
      Request("POST", "stream", FALSE) }

\* the inputs the two invocations are run on
ConcInputs ==
    /\ callerReq \in ConcRequests \cup {NilReq}
    /\ lastDo.resp.StatusCode \in {0, 200, 500}
    /\ stream.len <= 5 /\ stream.readErr = NoErr /\ stream.closeErr = NoErr
    /\ lastDo.err \in {NoErr, ConnReset}
    /\ \A i \in 1..Len(getBodyLog) : getBodyLog[i] = "stream"
    /\ ctx # "context.DeadlineExceeded"

InitConcurrent ==
    /\ config \in ConcConfigs
    /\ c = normalize(ConfigCopy(config))
    /\ pc = "idle"
    /\ callerReq = NilReq
    /\ req = NilReq
    /\ attempt = 0
    /\ resp = NilResp
    /\ err = NoErr
    /\ stream = NoStream
    /\ lastDo = NoResult
    /\ ctx = "active"
    /\ timerFired = FALSE
    /\ sends = 0
    /\ waits = <<>>
    /\ predLog = <<>>
    /\ getBodyLog = <<>>
    /\ result = NoResult
    /\ predCall = predIdle
    /\ reqObjs = <<>>
    /\ bo = NoBackoff
    /\ boCall = boIdle
    /\ prCall = prIdle
    /\ parked = <<[inv |-> 2, frame |-> IdleFrame]>>

\* the scheduler parks the running invocation and resumes the other one
Switch ==
    /\ parked # <<>>
    /\ LET f == Resumed(parked[1].frame, Frame)
       IN  /\ pc' = f.pc
           /\ callerReq' = f.callerReq
           /\ req' = f.req
           /\ attempt' = f.attempt
           /\ resp' = f.resp
           /\ err' = f.err
           /\ stream' = f.stream
           /\ lastDo' = f.lastDo
           /\ ctx' = f.ctx
           /\ timerFired' = f.timerFired
           /\ sends' = f.sends
           /\ waits' = f.waits
           /\ predLog' = f.predLog
           /\ getBodyLog' = f.getBodyLog
           /\ result' = f.result
           /\ predCall' = f.predCall
           /\ reqObjs' = f.reqObjs
    /\ parked' = <<[inv |-> 3 - parked[1].inv, frame |-> Frame]>>
    /\ UNCHANGED <<config, c, bo, boCall, prCall>>

NextConcurrent ==
    \/ Next /\ ConcInputs'
    \/ Switch

SpecConcurrent == InitConcurrent /\ [][NextConcurrent]_vars

\* the frames of all the invocations, running or parked
Frames == {Frame} \cup { parked[i].frame : i \in 1..Len(parked) }

\* the invocation with frame f went through its own attempts only
OwnAttempts(f) ==
    /\ f.sends <= c.MaxAttempts
    /\ ~(f.callerReq.Body = "stream" /\ ~f.callerReq.GetBody) =>
          f.attempt = (IF f.pc = "inflight" THEN f.sends - 1 ELSE f.sends)
    /\ \A i \in 1..Len(f.predLog) : f.predLog[i].attempt = i
    /\ Len(f.predLog) <= f.sends
    /\ f.predCall.asked => f.predCall.attempt = Len(f.predLog)
    /\ (f.predCall.asked /\ f.predCall.attempt = f.attempt) =>
          /\ f.predCall.resp = f.lastDo.resp
          /\ f.predCall.err = f.lastDo.err
    /\ Len(f.waits) <= f.sends
    /\ \A i \in 1..Len(f.waits) : f.waits[i] = Ns(50 * Pow2(i - 1))
    /\ (f.pc = "done" /\ f.ctx = "active") =>
          /\ f.result.resp.id = f.lastDo.resp.id
          /\ f.lastDo.resp.isNil \/ f.lastDo.resp.id = f.sends
          /\ f.result.resp.isNil = f.lastDo.resp.isNil
          /\ f.result.resp.StatusCode = f.lastDo.resp.StatusCode
          /\ f.result.err = f.lastDo.err
    /\ f.pc \in {"backoff", "send", "select", "blocked"} => f.req = f.reqObjs[f.sends + 1]
    /\ f.pc \in {"inflight", "decide", "drain", "reset"} => f.req = f.reqObjs[f.sends]

\* C25: when two invocations run concurrently through the same wrapped doer,
\* each keeps its own attempt counter, request and response: each makes at most
\* MaxAttempts sends, its predicate and backoff calls see its own attempt
\* numbers 1, 2, ..., and its result is that of its own last attempt, under
\* every interleaving.
C25_Confined == \A f \in Frames : OwnAttempts(f)

\* both invocations were retried and are done, one after two sends and one
\* after three, each with the response of its own last send
C25_Witness ==
    /\ parked # <<>>
    /\ c.MaxAttempts = 3
    /\ pc = "done"
    /\ sends = 3
    /\ result.resp.id = 3
    /\ waits = <<Ns(50), Ns(100)>>
    /\ parked[1].frame.pc = "done"
    /\ parked[1].frame.sends = 2
    /\ parked[1].frame.result.resp.id = 2
    /\ parked[1].frame.result.resp.StatusCode = 200
    /\ parked[1].frame.waits = <<Ns(50)>>

----------------------------------------------------------------------------
(* Properties of the retry loop: cancellation, draining, regeneration *)

\* C26: if the context is already cancelled when the wait after attempt N
\* begins, attempt N+1 is never sent and the invocation returns the
\* cancellation error, for every backoff duration; stated here for the zero
\* duration, whose timer is ready at once. A context that was cancelled when
\* the predicate was called after attempt N is cancelled when the wait begins.
C26_NoSendAfterCancel ==
    [][ (/\ pc = "select"
         /\ predCall.asked
         /\ predCall.ctx # "active"
         /\ c.Backoff = <<NoBackoff>>
         /\ pc' # pc)
        => /\ pc' = "done"
           /\ result' = [resp |-> NilResp, err |-> <<ctx>>]
           /\ sends' = sends ]_vars

\* C27: cancellation is observed in the backoff wait only. With the context
\* already cancelled, an invocation that is entered goes on to call the doer,
\* a pending send is made, and when the loop then stops by veto or exhaustion
\* the pair returned is the last attempt's response and error, not the
\* cancellation error; the cancellation error is returned from a wait only.
C27_CancelOnlyInWait ==
    [][ /\ (ctx # "active" /\ pc = "idle" /\ pc' # "idle") =>
              /\ pc' \in {"bypass", "send"}
              /\ result' = result
        /\ (ctx # "active" /\ pc \in {"bypass", "send"} /\ pc' # pc) =>
              /\ sends' = sends + 1
              /\ ctx' = ctx
        /\ (ctx # "active" /\ pc \in {"inflight", "read", "decide", "drain", "reset", "backoff"}
                           /\ pc' # pc) =>
              /\ pc' \in {"read", "decide", "drain", "reset", "backoff", "select", "done"}
              /\ ctx' = ctx
        /\ (ctx # "active" /\ pc = "bypassInflight" /\ pc' # pc) =>
              /\ pc' = "done"
              /\ result' = lastDo'
        /\ (ctx # "active" /\ pc = "decide" /\ pc' = "done") =>
              /\ result' = [resp |-> resp', err |-> err']
              /\ result'.resp.id = lastDo'.resp.id
              /\ result'.resp.StatusCode = lastDo'.resp.StatusCode
              /\ lastDo'.err # NoErr => result'.err = lastDo'.err
              /\ result'.err # <<ctx>>
        /\ (pc' = "done" /\ pc # "done" /\ ctx' # "active" /\ result'.err = <<ctx'>>) =>
              /\ pc \in {"select", "blocked"}
              /\ sends' = sends
      ]_vars

\* the third and last attempt of an invocation whose context is cancelled and
\* whose timers fired first: the 500 response of that attempt is returned
C27_Witness ==
    /\ pc = "done"
    /\ ctx = "context.Canceled"
    /\ c.MaxAttempts = 3
    /\ sends = 3
    /\ Len(waits) = 2
    /\ result.resp.StatusCode = 500
    /\ result.resp.id = 3
    /\ result.err = NoErr

\* the loop went past the break after the latest attempt: the response of that
\* attempt, if any, is discarded for a retry (pc = "drain": the drain is still
\* to come)
Discarded ==
    /\ Replayable
    /\ sends > 0
    /\ Len(predLog) = sends
    /\ LastAnswer

\* bytes the doer's stream delivers before its end or its failure
Deliverable == IF stream.readErr = NoErr THEN stream.len ELSE stream.failAt

\* C29: when a response is discarded for a retry, draining reads at most 4096
\* bytes of the body the response then has and closes it exactly once, be the
\* body shorter or longer than 4096 bytes, and whether or not the read or the
\* close fails; such a failure is not reported: the loop goes on with a nil
\* error, and an invocation whose last send returned no error returns a nil
\* error, the context's error or the error of GetBody.
C29_BoundedDrain ==
    /\ (Discarded /\ pc # "drain" /\ resp.Body.kind = "orig") =>
          /\ stream.read = Min(4096, Deliverable)
          /\ stream.closed = 1
    /\ (Discarded /\ pc # "drain" /\ resp.Body.kind \in {"NopCloser", "errCloser"}) =>
          /\ resp.Body.read = Min(4096, resp.Body.len)
          /\ resp.Body.closed = 1
          /\ stream.closed = 1
    /\ (Discarded /\ pc \in {"backoff", "send", "select", "blocked"}) => err = NoErr
    /\ (Discarded /\ pc = "done" /\ ~c.ReadResponse /\ lastDo.err = NoErr) =>
          result.err \in {<<ctx>>, Prepend(GetBodyErr, "calling req.GetBody")}

\* a 5000-byte body discarded for a retry: 4096 bytes read, closed once
C29_Witness ==
    /\ Discarded
    /\ pc = "blocked"
    /\ resp.Body.kind = "orig"
    /\ stream.len = 5000
    /\ stream.read = 4096
    /\ stream.closed = 1
    /\ sends = 1

\* C30: GetBody is called only on a request whose body is neither nil nor
\* http.NoBody, and GetBody is not nil then: no state has a call of a nil
\* GetBody; call i was made on request object i, which had a body and a
\* regenerator; a request that came without a body is retried without any
\* call; and once GetBody has returned a nil or NoBody body no call follows.
C30_GetBodyGuard ==
    /\ pc # "panic"
    /\ Len(getBodyLog) <= Len(reqObjs)
    /\ \A i \in 1..Len(getBodyLog) :
          /\ reqObjs[i].Body = "stream"
          /\ reqObjs[i].GetBody
          /\ getBodyLog[i] \in {"nil", "NoBody"} => i = Len(getBodyLog)
    /\ callerReq.Body \in {"nil", "NoBody"} => getBodyLog = <<>>
    /\ (~callerReq.GetBody /\ sends > 1) => callerReq.Body \in {"nil", "NoBody"}

\* a POST with http.NoBody and no GetBody sent three times without a call of
\* GetBody
C30_Witness ==
    /\ pc = "done"
    /\ callerReq.Method = "POST"
    /\ callerReq.Body = "NoBody"
    /\ ~callerReq.GetBody
    /\ c.MaxAttempts = 3
    /\ sends = 3
    /\ Len(reqObjs) = 3
    /\ getBodyLog = <<>>

====
